---- MODULE Spec2Model ----
(***************************************************************************)
(* A model of the AI Council backend (teemulinna/ai-council):              *)
(*   - the graph compiler CouncilExecutor.build_execution_graph,           *)
(*   - the streaming executor CouncilExecutor.execute and the websocket    *)
(*     session loop websocket_execute (backend/main.py),                   *)
(*   - the ranking parsers and calculate_aggregate_rankings                *)
(*     (backend/main.py, backend/council.py).                              *)
(*                                                                         *)
(* Specifications:                                                         *)
(*   SpecGraph  build_execution_graph applied to bounded councils          *)
(*   Spec       one websocket session: execute messages, the three stages  *)
(*   SpecAgg    calculate_aggregate_rankings applied to bounded inputs     *)
(***************************************************************************)
EXTENDS Integers, Sequences, FiniteSets, TLC

VARIABLES
    \* --- SpecGraph: one call of build_execution_graph
    gin,                \* the (nodes, edges) argument of the call
    gout,               \* [built |-> FALSE], then the returned graph
    \* --- Spec: one websocket session (CouncilExecutor + websocket_execute)
    pc,                 \* position of the session coroutine
    config,             \* config of the execute message being handled
    graph,              \* build_execution_graph(nodes, edges) of that config
    participant_order,  \* execution order without the chairman
    chairman_id,        \* id of chairman_nodes[0], or NoNode
    idx,                \* loop index into participant_order (1-based)
    stage1_responses,   \* keys of the stage1_responses dict, insertion order
    response_labels,    \* the response_labels dict: label letter -> node id
    frames,             \* frames sent on the socket during this execution
    calls,              \* query_model calls made during this execution
    conversations,      \* ids of the rows of table conversations
    executions,         \* execute messages received on this connection
    \* --- SpecAgg: one call of calculate_aggregate_rankings
    ain,                \* the (stage2_results, label_to_model) arguments
    aout,               \* [done |-> FALSE], then the returned list
    \* --- SpecSection: one call of extract_ranking_from_section
    sin,                \* the section argument: a token sequence
    sout,               \* [done |-> FALSE], then the returned list
    \* --- SpecFallback: one call of ResilientCouncil.execute_with_fallback
    fb_pc,              \* position of execute_with_fallback
    primary_models,     \* the primary_models argument
    min_responses_required,\* self.min_responses_required
    successful_responses,\* keys of successful_responses, insertion order
    failed_models,      \* the failed_models list
    fb_calls,           \* models handed to query_models_parallel, with outcome
    \* --- SpecRetry: one call of ResilientCouncil.execute_with_retry
    rt_pc,              \* position of execute_with_retry
    retry_attempts,     \* self.retry_attempts
    retry_delay,        \* self.retry_delay, in seconds
    attempt,            \* the loop variable attempt
    sleeps,             \* delays handed to asyncio.sleep, in call order
    rt_log,             \* outcome of every query_model call, in call order
    rt_result,          \* what execute_with_retry returned
    \* --- SpecCache: one in-process ResponseCache
    cache_pc,           \* whether a ResponseCache is under study
    cache_ttl,          \* self.ttl, in seconds
    cache_now,          \* datetime.now(), in seconds
    memory_cache,       \* self.memory_cache: key -> [data, expiry]
    cache_stats,        \* self.stats
    cache_ops,          \* SpecCache: every get and set so far, with its time and result
    \* --- SpecTracker: one CostTracker
    tr_pc,              \* whether a CostTracker is under study
    budget_limit,       \* self.budget_limit, in nano-dollars
    current_spend,      \* self.current_spend, in nano-dollars
    cost_history,       \* self.cost_history
    model_usage,        \* self.model_usage: model -> rollup
    \* --- SpecCouncil: run_full_council on the module's cache and cost_tracker
    rc_pc,              \* position of run_full_council
    run,                \* arguments of the run in progress
    initial_spend,      \* the local initial_spend
    selected_models,    \* stage 1: the local selected_models
    rc_stage1,          \* the local stage1_results
    rc_stage2,          \* the local stage2_results
    upstream_calls,     \* every query_model / query_models_parallel call so far
    returns,            \* what every finished run returned, in order
    waited,             \* number of times a cache lifetime has passed
    \* --- SpecLimiter: one RateLimiter
    lim_pc,             \* whether a RateLimiter is under study
    max_requests,       \* self.max_requests
    max_cost_per_hour,  \* self.max_cost_per_hour, in cents
    requests,           \* self.requests: client id -> list of (timestamp, cost)
    websocket_connections,\* self.websocket_connections: client id -> count
    lim_now,            \* time.time(), in seconds
    lim_calls,          \* number of calls of the limiter so far
    lim_last,           \* the last call of the limiter and what it returned
    lim_accepted,       \* every request check_rate_limit allowed, never forgotten
    held,               \* client id -> connections accepted and not yet released
    stray,              \* client ids that saw a release without a connection to release
    \* --- SpecEndpoint: the sessions of /ws/execute
    ep_pc,              \* whether the endpoint is under study
    sessions,           \* session -> its state, client host and standing at setup
    ep_executes,        \* the execute messages handled so far
    ep_calls,           \* the upstream calls dispatched for them
    \* --- SpecParsers: both ranking parsers on one reply
    pin,                \* the reply text of an evaluator
    pout,               \* what each parser returned for it
    \* --- SpecRedisCache: a ResponseCache on the Redis backend
    rd_pc,              \* whether such a cache is under study
    redis_store,        \* the server: key -> the string stored under it
    rd_stats,           \* self.stats
    rd_ops,             \* every get and set so far, with what it returned
    \* --- SpecPair: two run_full_council coroutines on the shared instances
    tasks               \* coroutine -> its position, locals and what it returned

graphVars == <<gin, gout>>
execVars == <<pc, config, graph, participant_order, chairman_id, idx,
              stage1_responses, response_labels, frames, calls,
              conversations, executions>>
aggVars == <<ain, aout>>
sectionVars == <<sin, sout>>
fallbackVars == <<fb_pc, primary_models, min_responses_required,
                  successful_responses, failed_models, fb_calls>>
retryVars == <<rt_pc, retry_attempts, retry_delay, attempt, sleeps, rt_log,
               rt_result>>
cacheVars == <<cache_pc, cache_ttl, cache_now, memory_cache, cache_stats,
               cache_ops>>
trackerVars == <<tr_pc, budget_limit, current_spend, cost_history,
                 model_usage>>
councilVars == <<rc_pc, run, initial_spend, selected_models, rc_stage1,
                 rc_stage2, upstream_calls, returns, waited>>
limiterVars == <<lim_pc, max_requests, max_cost_per_hour, requests,
                 websocket_connections, lim_now, lim_calls, lim_last,
                 lim_accepted, held, stray>>
endpointVars == <<ep_pc, sessions, ep_executes, ep_calls>>
parsersVars == <<pin, pout>>
redisVars == <<rd_pc, redis_store, rd_stats, rd_ops>>
pairVars == <<tasks>>
vars == <<graphVars, execVars, aggVars, sectionVars, fallbackVars, retryVars,
          cacheVars, trackerVars, councilVars, limiterVars, endpointVars,
          parsersVars, redisVars, pairVars>>

NoValue == "none"
NoNode  == 0

\* a part of the program that is not running: its variables at rest
GraphIdle ==
    /\ gin = NoValue
    /\ gout = NoValue

ExecIdle ==
    /\ pc = "off"
    /\ config = NoValue
    /\ graph = NoValue
    /\ participant_order = <<>>
    /\ chairman_id = NoNode
    /\ idx = 0
    /\ stage1_responses = <<>>
    /\ response_labels = <<>>
    /\ frames = <<>>
    /\ calls = <<>>
    /\ conversations = {}
    /\ executions = 0

AggIdle ==
    /\ ain = NoValue
    /\ aout = NoValue

SectionIdle ==
    /\ sin = NoValue
    /\ sout = NoValue

FallbackIdle ==
    /\ fb_pc = "off"
    /\ primary_models = <<>>
    /\ min_responses_required = 0
    /\ successful_responses = <<>>
    /\ failed_models = <<>>
    /\ fb_calls = <<>>

RetryIdle ==
    /\ rt_pc = "off"
    /\ retry_attempts = 0
    /\ retry_delay = 0
    /\ attempt = 0
    /\ sleeps = <<>>
    /\ rt_log = <<>>
    /\ rt_result = NoValue

CacheIdle ==
    /\ cache_pc = "off"
    /\ cache_ttl = 0
    /\ cache_now = 0
    /\ memory_cache = <<>>
    /\ cache_stats = <<>>
    /\ cache_ops = <<>>

TrackerIdle ==
    /\ tr_pc = "off"
    /\ budget_limit = 0
    /\ current_spend = 0
    /\ cost_history = <<>>
    /\ model_usage = <<>>

CouncilIdle ==
    /\ rc_pc = "off"
    /\ run = NoValue
    /\ initial_spend = 0
    /\ selected_models = <<>>
    /\ rc_stage1 = <<>>
    /\ rc_stage2 = <<>>
    /\ upstream_calls = <<>>
    /\ returns = <<>>
    /\ waited = 0

LimiterIdle ==
    /\ lim_pc = "off"
    /\ max_requests = 0
    /\ max_cost_per_hour = 0
    /\ requests = <<>>
    /\ websocket_connections = <<>>
    /\ lim_now = 0
    /\ lim_calls = 0
    /\ lim_last = NoValue
    /\ lim_accepted = <<>>
    /\ held = <<>>
    /\ stray = {}

EndpointIdle ==
    /\ ep_pc = "off"
    /\ sessions = <<>>
    /\ ep_executes = <<>>
    /\ ep_calls = {}

ParsersIdle ==
    /\ pin = <<>>
    /\ pout = [done |-> FALSE]

RedisIdle ==
    /\ rd_pc = "off"
    /\ redis_store = <<>>
    /\ rd_stats = <<>>
    /\ rd_ops = <<>>

PairIdle ==
    /\ tasks = <<>>

\* what a step of one part leaves alone, and what its start requires
notGraphVars == <<execVars, aggVars, sectionVars, fallbackVars, retryVars,
                  cacheVars, trackerVars, councilVars, limiterVars,
                  endpointVars, parsersVars, redisVars, pairVars>>
OnlyGraph ==
    /\ ExecIdle
    /\ AggIdle
    /\ SectionIdle
    /\ FallbackIdle
    /\ RetryIdle
    /\ CacheIdle
    /\ TrackerIdle
    /\ CouncilIdle
    /\ LimiterIdle
    /\ EndpointIdle
    /\ ParsersIdle
    /\ RedisIdle
    /\ PairIdle

notExecVars == <<graphVars, aggVars, sectionVars, fallbackVars, retryVars,
                 cacheVars, trackerVars, councilVars, limiterVars,
                 endpointVars, parsersVars, redisVars, pairVars>>
OnlyExec ==
    /\ GraphIdle
    /\ AggIdle
    /\ SectionIdle
    /\ FallbackIdle
    /\ RetryIdle
    /\ CacheIdle
    /\ TrackerIdle
    /\ CouncilIdle
    /\ LimiterIdle
    /\ EndpointIdle
    /\ ParsersIdle
    /\ RedisIdle
    /\ PairIdle

notAggVars == <<graphVars, execVars, sectionVars, fallbackVars, retryVars,
                cacheVars, trackerVars, councilVars, limiterVars,
                endpointVars, parsersVars, redisVars, pairVars>>
OnlyAgg ==
    /\ GraphIdle
    /\ ExecIdle
    /\ SectionIdle
    /\ FallbackIdle
    /\ RetryIdle
    /\ CacheIdle
    /\ TrackerIdle
    /\ CouncilIdle
    /\ LimiterIdle
    /\ EndpointIdle
    /\ ParsersIdle
    /\ RedisIdle
    /\ PairIdle

notSectionVars == <<graphVars, execVars, aggVars, fallbackVars, retryVars,
                    cacheVars, trackerVars, councilVars, limiterVars,
                    endpointVars, parsersVars, redisVars, pairVars>>
OnlySection ==
    /\ GraphIdle
    /\ ExecIdle
    /\ AggIdle
    /\ FallbackIdle
    /\ RetryIdle
    /\ CacheIdle
    /\ TrackerIdle
    /\ CouncilIdle
    /\ LimiterIdle
    /\ EndpointIdle
    /\ ParsersIdle
    /\ RedisIdle
    /\ PairIdle

notFallbackVars == <<graphVars, execVars, aggVars, sectionVars, retryVars,
                     cacheVars, trackerVars, councilVars, limiterVars,
                     endpointVars, parsersVars, redisVars, pairVars>>
OnlyFallback ==
    /\ GraphIdle
    /\ ExecIdle
    /\ AggIdle
    /\ SectionIdle
    /\ RetryIdle
    /\ CacheIdle
    /\ TrackerIdle
    /\ CouncilIdle
    /\ LimiterIdle
    /\ EndpointIdle
    /\ ParsersIdle
    /\ RedisIdle
    /\ PairIdle

notRetryVars == <<graphVars, execVars, aggVars, sectionVars, fallbackVars,
                  cacheVars, trackerVars, councilVars, limiterVars,
                  endpointVars, parsersVars, redisVars, pairVars>>
OnlyRetry ==
    /\ GraphIdle
    /\ ExecIdle
    /\ AggIdle
    /\ SectionIdle
    /\ FallbackIdle
    /\ CacheIdle
    /\ TrackerIdle
    /\ CouncilIdle
    /\ LimiterIdle
    /\ EndpointIdle
    /\ ParsersIdle
    /\ RedisIdle
    /\ PairIdle

notCacheVars == <<graphVars, execVars, aggVars, sectionVars, fallbackVars,
                  retryVars, trackerVars, councilVars, limiterVars,
                  endpointVars, parsersVars, redisVars, pairVars>>
OnlyCache ==
    /\ GraphIdle
    /\ ExecIdle
    /\ AggIdle
    /\ SectionIdle
    /\ FallbackIdle
    /\ RetryIdle
    /\ TrackerIdle
    /\ CouncilIdle
    /\ LimiterIdle
    /\ EndpointIdle
    /\ ParsersIdle
    /\ RedisIdle
    /\ PairIdle

notTrackerVars == <<graphVars, execVars, aggVars, sectionVars, fallbackVars,
                    retryVars, cacheVars, councilVars, limiterVars,
                    endpointVars, parsersVars, redisVars, pairVars>>
OnlyTracker ==
    /\ GraphIdle
    /\ ExecIdle
    /\ AggIdle
    /\ SectionIdle
    /\ FallbackIdle
    /\ RetryIdle
    /\ CacheIdle
    /\ CouncilIdle
    /\ LimiterIdle
    /\ EndpointIdle
    /\ ParsersIdle
    /\ RedisIdle
    /\ PairIdle

notCouncilVars == <<graphVars, execVars, aggVars, sectionVars, fallbackVars,
                    retryVars, limiterVars, endpointVars, parsersVars,
                    redisVars, pairVars>>
OnlyCouncil ==
    /\ GraphIdle
    /\ ExecIdle
    /\ AggIdle
    /\ SectionIdle
    /\ FallbackIdle
    /\ RetryIdle
    /\ LimiterIdle
    /\ EndpointIdle
    /\ ParsersIdle
    /\ RedisIdle
    /\ PairIdle

notLimiterVars == <<graphVars, execVars, aggVars, sectionVars, fallbackVars,
                    retryVars, cacheVars, trackerVars, councilVars,
                    endpointVars, parsersVars, redisVars, pairVars>>
OnlyLimiter ==
    /\ GraphIdle
    /\ ExecIdle
    /\ AggIdle
    /\ SectionIdle
    /\ FallbackIdle
    /\ RetryIdle
    /\ CacheIdle
    /\ TrackerIdle
    /\ CouncilIdle
    /\ EndpointIdle
    /\ ParsersIdle
    /\ RedisIdle
    /\ PairIdle

notEndpointVars == <<graphVars, execVars, aggVars, sectionVars, fallbackVars,
                     retryVars, cacheVars, trackerVars, councilVars,
                     limiterVars, parsersVars, redisVars, pairVars>>
OnlyEndpoint ==
    /\ GraphIdle
    /\ ExecIdle
    /\ AggIdle
    /\ SectionIdle
    /\ FallbackIdle
    /\ RetryIdle
    /\ CacheIdle
    /\ TrackerIdle
    /\ CouncilIdle
    /\ LimiterIdle
    /\ ParsersIdle
    /\ RedisIdle
    /\ PairIdle

notParsersVars == <<graphVars, execVars, aggVars, sectionVars, fallbackVars,
                    retryVars, cacheVars, trackerVars, councilVars,
                    limiterVars, endpointVars, redisVars, pairVars>>
OnlyParsers ==
    /\ GraphIdle
    /\ ExecIdle
    /\ AggIdle
    /\ SectionIdle
    /\ FallbackIdle
    /\ RetryIdle
    /\ CacheIdle
    /\ TrackerIdle
    /\ CouncilIdle
    /\ LimiterIdle
    /\ EndpointIdle
    /\ RedisIdle
    /\ PairIdle

notRedisVars == <<graphVars, execVars, aggVars, sectionVars, fallbackVars,
                  retryVars, cacheVars, trackerVars, councilVars,
                  limiterVars, endpointVars, parsersVars, pairVars>>
OnlyRedis ==
    /\ GraphIdle
    /\ ExecIdle
    /\ AggIdle
    /\ SectionIdle
    /\ FallbackIdle
    /\ RetryIdle
    /\ CacheIdle
    /\ TrackerIdle
    /\ CouncilIdle
    /\ LimiterIdle
    /\ EndpointIdle
    /\ ParsersIdle
    /\ PairIdle

notPairVars == <<graphVars, execVars, aggVars, sectionVars, fallbackVars,
                 retryVars, councilVars, limiterVars, endpointVars,
                 parsersVars, redisVars>>
OnlyPair ==
    /\ GraphIdle
    /\ ExecIdle
    /\ AggIdle
    /\ SectionIdle
    /\ FallbackIdle
    /\ RetryIdle
    /\ CouncilIdle
    /\ LimiterIdle
    /\ EndpointIdle
    /\ ParsersIdle
    /\ RedisIdle

(***************************************************************************)
(* Bounds of the model.                                                    *)
(***************************************************************************)
NodeIds == {1, 2, 3}        \* node ids of a council ("id" of a node)
HintValues == {1}           \* explicit speakingOrder values
GraphMaxEdges == 3          \* longest edge list in SpecGraph
MaxEdges == 2               \* longest edge list of a config in Spec
MaxEvaluators == 3          \* most Stage 2 results handed to the aggregator

\* data.get("speakingOrder", 99)
DefaultSpeakingOrder == 99

(***************************************************************************)
(* Sequence helpers.                                                       *)
(***************************************************************************)
Range(s) == {s[i] : i \in 1..Len(s)}

IsDistinct(s) == \A i, j \in 1..Len(s) : i # j => s[i] # s[j]

\* all sequences over S of length at most n
SeqsUpTo(S, n) == UNION {[1..k -> S] : k \in 0..n}

\* [x for x in s if Keep(x)]
RECURSIVE FilterSeq(_, _)
FilterSeq(s, keep) ==
    IF s = <<>> THEN <<>>
    ELSE IF Head(s) \in keep THEN <<Head(s)>> \o FilterSeq(Tail(s), keep)
         ELSE FilterSeq(Tail(s), keep)

\* keys of a dict built from a list of keys: first occurrences, in order
RECURSIVE Dedup(_)
Dedup(s) ==
    IF s = <<>> THEN <<>>
    ELSE LET r == Dedup(SubSeq(s, 1, Len(s) - 1))
         IN  IF s[Len(s)] \in Range(r) THEN r ELSE Append(r, s[Len(s)])

\* index of the first occurrence of x in s, 0 when absent
IndexOf(s, x) ==
    IF x \in Range(s) THEN CHOOSE i \in 1..Len(s) :
                              s[i] = x /\ \A j \in 1..(i - 1) : s[j] # x
    ELSE 0

(***************************************************************************)
(* build_execution_graph (backend/main.py 432-484).                        *)
(* nodes is the list of node ids in the order of config["nodes"]; hint[n]  *)
(* is node n's data.speakingOrder (99 when absent); edges is the list of   *)
(* <<source, target>> pairs in the order of config["edges"].               *)
(***************************************************************************)

\* list.sort(key=...) is stable: insert x behind every element whose key is
\* not larger.
RECURSIVE InsertByKey(_, _, _)
InsertByKey(x, s, key) ==
    IF s = <<>> THEN <<x>>
    ELSE IF key[Head(s)] <= key[x]
         THEN <<Head(s)>> \o InsertByKey(x, Tail(s), key)
         ELSE <<x>> \o s

RECURSIVE SortByKey(_, _)
SortByKey(s, key) ==
    IF s = <<>> THEN <<>>
    ELSE InsertByKey(s[Len(s)], SortByKey(SubSeq(s, 1, Len(s) - 1), key), key)

\* the edges both of whose ends are in node_map (line 451)
KnownEdges(nodes, edges) ==
    LET keep == {e \in Range(edges) : e[1] \in Range(nodes) /\ e[2] \in Range(nodes)}
    IN  FilterSeq(edges, keep)

\* incoming[n]: sources of the known edges into n, in edge order (452-453)
RECURSIVE SourcesInto(_, _)
SourcesInto(n, es) ==
    IF es = <<>> THEN <<>>
    ELSE IF Head(es)[2] = n THEN <<Head(es)[1]>> \o SourcesInto(n, Tail(es))
         ELSE SourcesInto(n, Tail(es))

\* outgoing[n]: targets of the known edges out of n, in edge order
RECURSIVE TargetsOf(_, _)
TargetsOf(n, es) ==
    IF es = <<>> THEN <<>>
    ELSE IF Head(es)[1] = n THEN <<Head(es)[2]>> \o TargetsOf(n, Tail(es))
         ELSE TargetsOf(n, Tail(es))

Incoming(nodes, edges) ==
    [n \in Range(nodes) |-> SourcesInto(n, KnownEdges(nodes, edges))]

Outgoing(nodes, edges) ==
    [n \in Range(nodes) |-> TargetsOf(n, KnownEdges(nodes, edges))]

\* Release with the in-degree test off by one: a target is queued while one
\* of its predecessors has still to run.
RECURSIVE ReleaseEarly(_, _)
ReleaseEarly(targets, st) ==
    IF targets = <<>> THEN st
    ELSE LET t == Head(targets)
             d == st.deg[t] - 1
         IN  ReleaseEarly(Tail(targets),
                          [deg   |-> [st.deg EXCEPT ![t] = d],
                           queue |-> IF d \in {0, 1} THEN Append(st.queue, t)
                                     ELSE st.queue])

\* for target in outgoing[current]: in_degree[target] -= 1; append at 0
\* st = [deg |-> in_degree, queue |-> queue]
RECURSIVE Release(_, _)
Release(targets, st) ==
    IF targets = <<>> THEN st
    ELSE LET t == Head(targets)
             d == st.deg[t] - 1
         IN  Release(Tail(targets),
                     [deg   |-> [st.deg EXCEPT ![t] = d],
                      queue |-> IF d = 0 THEN Append(st.queue, t) ELSE st.queue])

\* the while loop of Kahn's algorithm (460-469)
RECURSIVE KahnLoop(_, _, _, _, _)
KahnLoop(queue, deg, order, outgoing, hint) ==
    IF queue = <<>> THEN order
    ELSE LET sorted  == SortByKey(queue, hint)
             current == Head(sorted)
             st      == Release(outgoing[current],
                                [deg |-> deg, queue |-> Tail(sorted)])
         IN  KahnLoop(st.queue, st.deg, Append(order, current), outgoing, hint)

\* the fallback of lines 472-477 without the sort
CycleFallbackAsListed(nodes, hint) == nodes

\* the fallback of lines 472-477
CycleFallback(nodes, hint) == SortByKey(nodes, hint)

ExecutionOrder(nodes, hint, edges) ==
    LET incoming == Incoming(nodes, edges)
        outgoing == Outgoing(nodes, edges)
        in_degree == [n \in Range(nodes) |-> Len(incoming[n])]
        queue0 == FilterSeq(nodes, {n \in Range(nodes) : in_degree[n] = 0})
        order == KahnLoop(queue0, in_degree, <<>>, outgoing, hint)
    IN  IF Len(order) # Len(nodes) THEN CycleFallback(nodes, hint) ELSE order

build_execution_graph(nodes, hint, edges) ==
    [incoming        |-> Incoming(nodes, edges),
     outgoing        |-> Outgoing(nodes, edges),
     execution_order |-> ExecutionOrder(nodes, hint, edges)]

(***************************************************************************)
(* Councils.                                                               *)
(***************************************************************************)
\* an edge joins two different nodes (a self-loop is no edge of a council);
\* an edge may repeat and may name a node outside the node list
EdgePairs == {e \in NodeIds \X NodeIds : e[1] # e[2]}

\* the edges a configuration may list for the graph compiler: a self-loop
\* passes the test of line 451 like any other edge (the compiler never
\* compares node ids, so the self-loop of one node stands for all)
GraphEdgePairs == EdgePairs \cup {<<1, 1>>}

\* node lists: node ids are the keys of node_map, each node listed once
NodeLists == {s \in SeqsUpTo(NodeIds, Cardinality(NodeIds)) :
                 Len(s) >= 1 /\ IsDistinct(s)}

Hints == [NodeIds -> HintValues \cup {DefaultSpeakingOrder}]

\* u reaches v over one or more known edges
Reaches(nodes, edges, u, v) ==
    LET E == Range(KnownEdges(nodes, edges))
        RECURSIVE Grow(_, _)
        Grow(S, k) == IF k = 0 THEN S
                      ELSE Grow(S \cup {e[2] : e \in {f \in E : f[1] \in S}}, k - 1)
    IN  v \in Grow({e[2] : e \in {f \in E : f[1] = u}}, Len(nodes))

IsAcyclic(nodes, edges) == \A n \in Range(nodes) : ~Reaches(nodes, edges, n, n)

(***************************************************************************)
(* Model replies.  A reply text is a sequence of tokens:                   *)
(*   final   the literal header "FINAL RANKING:"                           *)
(*   num     a numbered item "<n>. Response <l>"                           *)
(*   bullet  a bulleted item "- Response <l>"                              *)
(*   ref     a mention "Response <l>" inside prose                         *)
(*   para    a blank line                                                  *)
(*   prose   n characters of words that hold no label, digit or header     *)
(* and the headers only parse_ranking_from_text knows:                     *)
(*   final_lc  "FINAL RANKING" in another letter case or without colon     *)
(*   my        "MY RANKING:"                                               *)
(*   ranking   "RANKING:" at the end of a line                             *)
(*   ranked    "RANKED ORDER:"                                             *)
(* Tokens are separated by one white-space character; every header stands  *)
(* at the end of its line.                                                 *)
(***************************************************************************)
Alphabet == <<"A", "B", "C", "D", "E", "F", "G", "H", "I", "J", "K", "L", "M",
              "N", "O", "P", "Q", "R", "S", "T", "U", "V", "W", "X", "Y", "Z">>

\* chr(65 + i) for a 0-based i
Chr(i) == Alphabet[i + 1]

Tok(k, n, l) == [k |-> k, n |-> n, l |-> l]
Final     == Tok("final", 0, "")
Num(n, l) == Tok("num", n, l)
Bullet(l) == Tok("bullet", 0, l)
Ref(l)    == Tok("ref", 0, l)
Para      == Tok("para", 0, "")
Words(n)  == Tok("prose", n, "")
Prose     == Words(40)

\* the letters of the tokens of s whose kind is in kinds, in text order
RECURSIVE LettersOf(_, _)
LettersOf(s, kinds) ==
    IF s = <<>> THEN <<>>
    ELSE IF Head(s).k \in kinds THEN <<Head(s).l>> \o LettersOf(Tail(s), kinds)
         ELSE LettersOf(Tail(s), kinds)

\* positions of the "FINAL RANKING:" headers of a text
FinalPositions(text) == {i \in 1..Len(text) : text[i].k = "final"}

Min(S) == CHOOSE x \in S : \A y \in S : x <= y

\* text.split("FINAL RANKING:")[1]: what stands between the first header and
\* the second one (or the end of the text)
SplitPart1(text) ==
    LET first == Min(FinalPositions(text))
        later == {i \in FinalPositions(text) : i > first}
        stop  == IF later = {} THEN Len(text) ELSE Min(later) - 1
    IN  SubSeq(text, first + 1, stop)

(***************************************************************************)
(* CouncilExecutor.parse_ranking (backend/main.py 874-884).                *)
(* The result is the list of labels "Response <l>", written as letters.    *)
(***************************************************************************)
parse_ranking(text) ==
    LET matches == IF FinalPositions(text) = {} THEN <<>>
                   ELSE LettersOf(SplitPart1(text), {"num"})
    IN  IF matches # <<>> THEN matches
        ELSE LettersOf(text, {"num", "bullet", "ref"})

(***************************************************************************)
(* parse_ranking_from_text (backend/council.py 275-373).                   *)
(***************************************************************************)
\* characters of a token, its separator included
TokLen(t) ==
    CASE t.k = "final"    -> 15
      [] t.k = "final_lc" -> 15
      [] t.k = "my"       -> 12
      [] t.k = "ranking"  -> 9
      [] t.k = "ranked"   -> 14
      [] t.k = "num"      -> IF t.n < 10 THEN 14 ELSE 15
      [] t.k = "bullet"   -> 13
      [] t.k = "ref"      -> 11
      [] t.k = "para"     -> 1
      [] t.k = "prose"    -> t.n

RECURSIVE TextLen(_)
TextLen(s) == IF s = <<>> THEN 0 ELSE TokLen(Head(s)) + TextLen(Tail(s))

\* s[:limit]: the leading tokens whose characters (separator aside) lie
\* within the first limit characters; a token cut by the slice matches nothing
RECURSIVE TakeChars(_, _)
TakeChars(s, limit) ==
    IF s = <<>> THEN <<>>
    ELSE IF TokLen(Head(s)) - 1 <= limit
         THEN <<Head(s)>> \o TakeChars(Tail(s), limit - TokLen(Head(s)))
         ELSE <<>>

\* s[-limit:]: the trailing tokens that start within the last limit characters
RECURSIVE LastChars(_, _)
LastChars(s, limit) ==
    IF s = <<>> THEN <<>>
    ELSE IF TextLen(s) <= limit THEN s
         ELSE LastChars(Tail(s), limit)

\* re.findall of (\d+)[\.\)\:\s]+\s*Response\s+([A-Z]): the numbered items
RECURSIVE NumberedMatches(_)
NumberedMatches(s) ==
    IF s = <<>> THEN <<>>
    ELSE IF Head(s).k = "num" THEN <<Head(s)>> \o NumberedMatches(Tail(s))
         ELSE NumberedMatches(Tail(s))

\* ranking_dict filled without the test "num not in ranking_dict": a later
\* match of a position replaces the earlier one
RankingDictLast(matches) ==
    LET accepted == {i \in 1..Len(matches) : matches[i].n >= 1 /\ matches[i].n <= 10}
        positions == {matches[i].n : i \in accepted}
    IN  [n \in positions |->
            matches[CHOOSE i \in accepted :
                       /\ matches[i].n = n
                       /\ \A j \in accepted : matches[j].n = n => j <= i].l]

\* ranking_dict (297-305): position -> letter of its first match, for the
\* positions 1..10; a function on the accepted positions
RankingDict(matches) ==
    LET accepted == {i \in 1..Len(matches) : matches[i].n >= 1 /\ matches[i].n <= 10}
        positions == {matches[i].n : i \in accepted}
    IN  [n \in positions |->
            matches[Min({i \in accepted : matches[i].n = n})].l]

\* the loop of lines 318-323 over sorted(ranking_dict.keys())
RECURSIVE ConsecutiveFrom(_, _)
ConsecutiveFrom(dict, expected_pos) ==
    IF expected_pos \in DOMAIN dict
    THEN <<dict[expected_pos]>> \o ConsecutiveFrom(dict, expected_pos + 1)
    ELSE <<>>

\* extract_ranking_from_section (287-326)
extract_ranking_from_section(section) ==
    LET matches == NumberedMatches(section)
        dict    == RankingDict(matches)
        results == ConsecutiveFrom(dict, 1)
    IN  IF matches = <<>> THEN <<>>
        ELSE IF DOMAIN dict = {} THEN <<>>
        ELSE IF 1 \notin DOMAIN dict THEN <<>>
        ELSE IF Len(results) >= 2 THEN results ELSE <<>>

\* the token kinds each pattern of ranking_headers matches (329-334);
\* re.IGNORECASE, and "RANKING[:\s]*\n" also matches inside the longer
\* headers that end in RANKING
HeaderKinds(p) ==
    CASE p = 1 -> {"final", "final_lc"}
      [] p = 2 -> {"my"}
      [] p = 3 -> {"final", "final_lc", "my", "ranking"}
      [] p = 4 -> {"ranked"}

\* re.search: the first match of header pattern p, 0 when there is none
HeaderMatch(text, p) ==
    LET hits == {i \in 1..Len(text) : text[i].k \in HeaderKinds(p)}
    IN  IF hits = {} THEN 0 ELSE Min(hits)

\* ranking_text[match.end():match.end() + 300]; [:\s]* has swallowed the
\* white space behind the header, blank lines included
RECURSIVE DropParas(_)
DropParas(s) ==
    IF s # <<>> /\ Head(s).k = "para" THEN DropParas(Tail(s)) ELSE s

SectionAfter(text, i) ==
    TakeChars(DropParas(SubSeq(text, i + 1, Len(text))), 300)

\* Strategy 1 (336-343): the first header pattern, from p on, whose section
\* yields a ranking
RECURSIVE HeaderStrategy(_, _)
HeaderStrategy(text, p) ==
    IF p > 4 THEN <<>>
    ELSE LET i == HeaderMatch(text, p)
             results == IF i = 0 THEN <<>>
                        ELSE extract_ranking_from_section(SectionAfter(text, i))
         IN  IF results # <<>> THEN results ELSE HeaderStrategy(text, p + 1)

\* '\n\n'.join(paragraphs[-2:])[-400:] (347-352)
LastTwoParagraphs(text) ==
    LET breaks == {i \in 1..Len(text) : text[i].k = "para"}
        last   == IF breaks = {} THEN 0
                  ELSE CHOOSE i \in breaks : \A j \in breaks : j <= i
        before == {i \in breaks : i < last}
        start  == IF before = {} THEN 0
                  ELSE CHOOSE i \in before : \A j \in before : j <= i
    IN  LastChars(SubSeq(text, start + 1, Len(text)), 400)

\* Strategy 3 (358-370): the bulleted labels of the last 500 characters
BulletStrategy(text) ==
    LET bullet_matches == LettersOf(LastChars(text, 500), {"bullet"})
        results == Dedup(bullet_matches)
    IN  IF Len(bullet_matches) >= 2 /\ Len(results) >= 2 THEN results ELSE <<>>

parse_ranking_from_text(text) ==
    LET r1 == HeaderStrategy(text, 1)
        r2 == extract_ranking_from_section(LastTwoParagraphs(text))
    IN  IF r1 # <<>> THEN r1
        ELSE IF r2 # <<>> THEN r2
        ELSE BulletStrategy(text)

(***************************************************************************)
(* The streaming executor (backend/main.py 364-916).                       *)
(***************************************************************************)
\* CouncilExecutor.send: every frame carries the conversationId (379-382)
Frame(type, node, state, stage) ==
    [type |-> type, node |-> node, state |-> state, stage |-> stage,
     rankings |-> <<>>, conv |-> TRUE]

StageUpdate(k)      == Frame("stage_update", NoNode, "", k)
NodeState(n, st, k) == Frame("node_state", n, st, k)
RankingFrame(n, r)  == [Frame("ranking", n, "", 2) EXCEPT !.rankings = r]

\* websocket.send_json({"type": "error", "error": str(e)}) of the handler
\* (line 914): sent outside CouncilExecutor.send
HandlerError ==
    [type |-> "error", node |-> NoNode, state |-> "", stage |-> 0,
     rankings |-> <<>>, conv |-> FALSE]

\* a query_model call: the stage, the node asked, and the node ids whose
\* Stage 1 responses are embedded in the user message, in message order
Call(stage, node, ctx) == [stage |-> stage, node |-> node, ctx |-> ctx]

\* chairman_nodes[0] read as nodes[0]
FirstNode(nodes, chair) == Head(nodes)

\* chairman_nodes[0]: the first node of the list flagged isChairman (527-530)
FirstChairman(nodes, chair) ==
    LET flagged == FilterSeq(nodes, chair)
    IN  IF flagged = <<>> THEN NoNode ELSE Head(flagged)

\* get_upstream_responses with the edge filter dropped: every response so
\* far is handed down
AllResponsesSoFar(node_id, incoming, responses) == responses

\* get_upstream_responses (486-509): the upstream nodes of node_id that have
\* a response, in the order of incoming[node_id]
get_upstream_responses(node_id, incoming, responses) ==
    IF node_id \in DOMAIN incoming
    THEN FilterSeq(incoming[node_id], Range(responses))
    ELSE <<>>

\* "if len(stage1_responses) > 1" with the bound off by one
Stage2RunsOnAny(responses) == Len(responses) > 0

\* if len(stage1_responses) > 1 (line 665)
Stage2Runs(responses) == Len(responses) > 1

\* labels handed out by position in the execution order, failed nodes too
LabelsByOrder(responses, order) ==
    [l \in {Chr(i - 1) : i \in 1..Len(order)} |->
        order[CHOOSE i \in 1..Len(order) : Chr(i - 1) = l]]

\* response_labels (669-675): label chr(65 + i) for the i-th key of
\* stage1_responses; order is the participant order (not read here)
MakeLabels(responses, order) ==
    [l \in {Chr(i - 1) : i \in 1..Len(responses)} |->
        responses[CHOOSE i \in 1..Len(responses) : Chr(i - 1) = l]]

\* responses_to_include without the edge test
ChairmanGetsAll(chair, incoming, responses) == responses

\* responses_to_include (773-783)
ChairmanResponses(chair, incoming, responses) ==
    IF incoming[chair] # <<>>
    THEN Dedup(FilterSeq(incoming[chair], Range(responses)))
    ELSE responses

\* frames of a Stage 1 query whose failure sends node_state(error) alone
Stage1FramesUnreported(node, outcome) ==
    <<NodeState(node, "active", 1)>> \o
    (IF outcome = "ok"
     THEN <<Frame("response", node, "", 1), NodeState(node, "complete", 1)>>
     ELSE <<NodeState(node, "error", 1)>>)

\* frames of one Stage 1 query (579, 628-633, 645-646, 661-662); a call that
\* returned no response and one that raised send the same two frames
Stage1Frames(node, outcome) ==
    <<NodeState(node, "active", 1)>> \o
    (IF outcome = "ok"
     THEN <<Frame("response", node, "", 1), NodeState(node, "complete", 1)>>
     ELSE <<NodeState(node, "error", 1), Frame("error", node, "", 1)>>)

\* frames of Stage 3 with the stage_update sent after the node went active
Stage3FramesLate(chair, outcome) ==
    <<NodeState(chair, "active", 3), StageUpdate(3)>>

\* frames of Stage 3 (762, 771, 830-834, 849); outcome of the chairman call:
\* "ok" a response, "none" no response, "raise" an exception in the try block
Stage3Frames(chair, outcome) ==
    <<StageUpdate(3), NodeState(chair, "active", 3)>>
    \o (CASE outcome = "ok"    -> <<Frame("final_answer", NoNode, "", 3),
                                    NodeState(chair, "complete", 3)>>
          [] outcome = "none"  -> <<>>
          [] outcome = "raise" -> <<Frame("error", chair, "", 3)>>)

\* councils of the session model
ExecNodeLists == {<<1, 2, 3>>}
ExecHints     == {[n \in NodeIds |-> DefaultSpeakingOrder]}
\* at most one node of a council is flagged isChairman
ChairFlags    == {c \in SUBSET NodeIds : Cardinality(c) <= 1}
Configs == [nodes : ExecNodeLists, hint : ExecHints, chair : ChairFlags,
            edges : SeqsUpTo(EdgePairs, MaxEdges)]

\* replies of an evaluator in Stage 2
ReplyTexts ==
    {<<Prose, Final, Num(1, "A"), Num(2, "B")>>,
     <<Ref("A"), Final, Num(1, "B"), Num(2, "B"), Num(3, "D")>>}

\* self.conversation_id = str(uuid.uuid4()), set once per connection (375)
ConversationId == "conv"

Outcomes == {"ok", "none", "raise"}

InitExec ==
    /\ pc = "idle"
    /\ config = [nodes |-> <<>>, hint |-> <<>>, chair |-> {}, edges |-> <<>>]
    /\ graph = [incoming |-> <<>>, outgoing |-> <<>>, execution_order |-> <<>>]
    /\ participant_order = <<>>
    /\ chairman_id = NoNode
    /\ idx = 0
    /\ stage1_responses = <<>>
    /\ response_labels = <<>>
    /\ frames = <<>>
    /\ calls = <<>>
    /\ conversations = {}
    /\ executions = 0

\* websocket_execute receives an execute message and execute() runs up to the
\* first query (898-907, 511-550)
Receive ==
    /\ pc = "idle"
    /\ \E cfg \in Configs :
        LET g == build_execution_graph(cfg.nodes, cfg.hint, cfg.edges)
            c == FirstChairman(cfg.nodes, cfg.chair)
        IN  /\ config' = cfg
            /\ graph' = g
            /\ chairman_id' = c
            /\ participant_order' =
                   FilterSeq(g.execution_order, Range(g.execution_order) \ {c})
    /\ executions' = executions + 1
    /\ idx' = 1
    /\ stage1_responses' = <<>>
    /\ response_labels' = <<>>
    /\ frames' = <<StageUpdate(1)>>
    /\ calls' = <<>>
    /\ pc' = "stage1"
    /\ UNCHANGED <<conversations>>
    /\ UNCHANGED notExecVars

\* one iteration of the Stage 1 loop (553-662)
Stage1Query ==
    /\ pc = "stage1"
    /\ idx <= Len(participant_order)
    /\ \E outcome \in Outcomes :
        LET node == participant_order[idx]
            ctx  == get_upstream_responses(node, graph.incoming, stage1_responses)
        IN  /\ calls' = Append(calls, Call(1, node, ctx))
            /\ stage1_responses' = IF outcome = "ok"
                                   THEN Append(stage1_responses, node)
                                   ELSE stage1_responses
            /\ frames' = frames \o Stage1Frames(node, outcome)
    /\ idx' = idx + 1
    /\ UNCHANGED <<pc, config, graph, participant_order, chairman_id,
                   response_labels, conversations, executions>>
    /\ UNCHANGED notExecVars

Stage1Over == pc = "stage1" /\ idx > Len(participant_order)

\* Stage 2 starts (664-677)
Stage2Begin ==
    /\ Stage1Over
    /\ Stage2Runs(stage1_responses)
    /\ frames' = Append(frames, StageUpdate(2))
    /\ response_labels' = MakeLabels(stage1_responses, participant_order)
    /\ idx' = 1
    /\ pc' = "stage2"
    /\ UNCHANGED <<config, graph, participant_order, chairman_id,
                   stage1_responses, calls, conversations, executions>>
    /\ UNCHANGED notExecVars

\* one iteration of the Stage 2 loop (692-758)
Stage2Query ==
    /\ pc = "stage2"
    /\ idx <= Len(participant_order)
    /\ LET node == participant_order[idx]
       IN  /\ calls' = Append(calls, Call(2, node, stage1_responses))
           /\ \/ \E text \in ReplyTexts :
                    frames' = frames \o <<NodeState(node, "active", 2),
                                          RankingFrame(node, parse_ranking(text)),
                                          NodeState(node, "complete", 2)>>
              \/ \* query_model returned None
                 frames' = frames \o <<NodeState(node, "active", 2),
                                       NodeState(node, "complete", 2)>>
              \/ \* an exception inside the try block
                 frames' = frames \o <<NodeState(node, "active", 2)>>
    /\ idx' = idx + 1
    /\ UNCHANGED <<pc, config, graph, participant_order, chairman_id,
                   stage1_responses, response_labels, conversations, executions>>
    /\ UNCHANGED notExecVars

\* execute() has reached "if chairman:" (line 761)
AtStage3 ==
    \/ Stage1Over /\ ~Stage2Runs(stage1_responses)
    \/ pc = "stage2" /\ idx > Len(participant_order)

\* Stage 3 (760-849)
Stage3Chairman ==
    /\ AtStage3
    /\ chairman_id # NoNode
    /\ calls' = Append(calls, Call(3, chairman_id,
                   ChairmanResponses(chairman_id, graph.incoming, stage1_responses)))
    /\ \E outcome \in Outcomes :
           frames' = frames \o Stage3Frames(chairman_id, outcome)
    /\ pc' = "finish"
    /\ UNCHANGED <<config, graph, participant_order, chairman_id, idx,
                   stage1_responses, response_labels, conversations, executions>>
    /\ UNCHANGED notExecVars

AtFinish == pc = "finish" \/ (AtStage3 /\ chairman_id = NoNode)

\* save_conversation inserts the row and "complete" is sent (851-872)
Complete ==
    /\ AtFinish
    /\ ConversationId \notin conversations
    /\ conversations' = conversations \cup {ConversationId}
    /\ frames' = Append(frames, Frame("complete", NoNode, "", 0))
    /\ pc' = "done"
    /\ UNCHANGED <<config, graph, participant_order, chairman_id, idx,
                   stage1_responses, response_labels, calls, executions>>
    /\ UNCHANGED notExecVars

\* save_conversation raises sqlite3.IntegrityError: conversations.id is the
\* primary key (database.py 57, 187-198) and the row of this connection's
\* conversation_id exists.  The handler catches it, sends its own error frame
\* and leaves the receive loop (911-916).
SaveFails ==
    /\ AtFinish
    /\ ConversationId \in conversations
    /\ frames' = Append(frames, HandlerError)
    /\ pc' = "failed"
    /\ UNCHANGED <<config, graph, participant_order, chairman_id, idx,
                   stage1_responses, response_labels, calls, conversations,
                   executions>>
    /\ UNCHANGED notExecVars

\* execute() has returned; the handler is back at receive_text (896-898)
AwaitNext ==
    /\ pc = "done"
    /\ pc' = "idle"
    /\ config' = [nodes |-> <<>>, hint |-> <<>>, chair |-> {}, edges |-> <<>>]
    /\ graph' = [incoming |-> <<>>, outgoing |-> <<>>, execution_order |-> <<>>]
    /\ participant_order' = <<>>
    /\ chairman_id' = NoNode
    /\ idx' = 0
    /\ stage1_responses' = <<>>
    /\ response_labels' = <<>>
    /\ frames' = <<>>
    /\ calls' = <<>>
    /\ UNCHANGED <<conversations, executions>>
    /\ UNCHANGED notExecVars

\* the client goes away while the handler waits (909-910)
Disconnect ==
    /\ pc = "idle"
    /\ pc' = "closed"
    /\ UNCHANGED <<config, graph, participant_order, chairman_id, idx,
                   stage1_responses, response_labels, frames, calls,
                   conversations, executions>>
    /\ UNCHANGED notExecVars

Init == InitExec /\ OnlyExec

Next ==
    \/ Receive
    \/ Stage1Query
    \/ Stage2Begin
    \/ Stage2Query
    \/ Stage3Chairman
    \/ Complete
    \/ SaveFails
    \/ AwaitNext
    \/ Disconnect

Spec == Init /\ [][Next]_vars

(***************************************************************************)
(* What an execution shows to its client and to the models.                *)
(***************************************************************************)
FrameIdx == 1..Len(frames)
CallIdx  == 1..Len(calls)

\* execute() has returned or has been left by an exception
ExecutionOver == pc \in {"done", "failed"}

\* nodes for which a response frame was sent in Stage 1
RespondedNodes == {frames[i].node : i \in {j \in FrameIdx : frames[j].type = "response"}}

\* sources of the config's edges into v that lie inside the council
EdgeSourcesInto(v) ==
    {config.edges[i][1] : i \in {j \in 1..Len(config.edges) :
        /\ config.edges[j][2] = v
        /\ config.edges[j][1] \in Range(config.nodes)
        /\ v \in Range(config.nodes)}}

AcyclicCouncil == IsAcyclic(config.nodes, config.edges)

\* the Stage 1 call with index i embeds exactly the responses of the
\* upstream nodes of its node that responded
EmbedsExactlyUpstream(i) ==
    Range(calls[i].ctx) = EdgeSourcesInto(calls[i].node) \cap RespondedNodes

\* node u was queried in Stage 1 before call i
QueriedBefore(u, i) ==
    \E j \in 1..(i - 1) : calls[j].stage = 1 /\ calls[j].node = u

PerNodeFrame(f) ==
    /\ f.type \in {"node_state", "response", "ranking", "final_answer", "error"}
    /\ f.stage >= 1

\* frames from index i on are grouped, cur being the stage of the latest
\* stage_update before i (0 when there is none)
RECURSIVE GroupedFrom(_, _)
GroupedFrom(i, cur) ==
    IF i > Len(frames) THEN TRUE
    ELSE IF frames[i].type = "stage_update"
         THEN frames[i].stage > cur /\ GroupedFrom(i + 1, frames[i].stage)
         ELSE /\ PerNodeFrame(frames[i]) => frames[i].stage = cur
              /\ GroupedFrom(i + 1, cur)

(***************************************************************************)
(* C3. Within one execution the frames are grouped by stage in increasing  *)
(* order: stage_update(k) is sent before every node_state, response,       *)
(* ranking, final_answer or error frame of stage k, and no per-node frame  *)
(* of stage k is sent after stage_update(k+1).                             *)
(***************************************************************************)
C3_FramesGroupedByStage == GroupedFrom(1, 0)

\* an execution with frames of all three stages
C3_Witness ==
    /\ pc = "done"
    /\ \E i \in FrameIdx : frames[i].type = "ranking"
    /\ \E i \in FrameIdx : frames[i].type = "final_answer"

(***************************************************************************)
(* C4 as stated. For every execute message handled on a session, the       *)
(* second and later ones included, exactly one complete frame is sent and  *)
(* it is the last frame of that execution.                                 *)
(***************************************************************************)
C4_CompleteIsLast ==
    /\ \A i \in FrameIdx : frames[i].type = "complete" => i = Len(frames)
    /\ ExecutionOver =>
          /\ frames # <<>>
          /\ frames[Len(frames)].type = "complete"

(***************************************************************************)
(* C5 as stated. When Stage 1 produces zero valid responses the execution  *)
(* ends with an error result: no Stage 2 ranking call and no Stage 3       *)
(* chairman call is made.                                                  *)
(***************************************************************************)
C5_NoCallsWithoutResponses ==
    RespondedNodes = {} => \A i \in CallIdx : calls[i].stage = 1

(***************************************************************************)
(* C6. When Stage 1 produces exactly one valid response, Stage 2 is        *)
(* skipped: no stage_update(2) frame, no ranking query and no ranking      *)
(* frame occur in that execution.                                          *)
(***************************************************************************)
C6_SingleResponseSkipsStage2 ==
    Cardinality(RespondedNodes) = 1 =>
        /\ \A i \in FrameIdx : frames[i] # StageUpdate(2)
        /\ \A i \in FrameIdx : frames[i].type # "ranking"
        /\ \A i \in FrameIdx : frames[i].stage # 2
        /\ \A i \in CallIdx : calls[i].stage # 2

\* an execution with one response that went on to the chairman and ended
C6_Witness ==
    /\ pc = "done"
    /\ Cardinality(RespondedNodes) = 1
    /\ Len(participant_order) >= 2
    /\ \E i \in CallIdx : calls[i].stage = 3

(***************************************************************************)
(* C7. The chairman's Stage 3 input holds the Stage 1 responses of exactly *)
(* the nodes with an edge into the chairman when there is such an edge,    *)
(* and the Stage 1 responses of all participants when there is none.       *)
(***************************************************************************)
C7_ChairmanContext ==
    \A i \in CallIdx : calls[i].stage = 3 =>
        /\ calls[i].node = chairman_id
        /\ IsDistinct(calls[i].ctx)
        /\ Range(calls[i].ctx) =
              IF EdgeSourcesInto(chairman_id) # {}
              THEN EdgeSourcesInto(chairman_id) \cap RespondedNodes
              ELSE RespondedNodes

\* the chairman is handed some responses while another node's response is
\* left out
C7_Witness ==
    \E i \in CallIdx :
        /\ calls[i].stage = 3
        /\ calls[i].ctx # <<>>
        /\ RespondedNodes \ Range(calls[i].ctx) # {}

ReachedStage2 == \E i \in FrameIdx : frames[i] = StageUpdate(2)

(***************************************************************************)
(* C8. In every execution that reaches Stage 2 the label mapping is a      *)
(* bijection between the first n letters A, B, ... and the n nodes with a  *)
(* valid Stage 1 response, the i-th label mapping to the i-th such node in *)
(* execution order; a node that failed Stage 1 has no label.               *)
(***************************************************************************)
C8_LabelBijection ==
    ReachedStage2 =>
        LET valid == FilterSeq(participant_order, RespondedNodes)
        IN  /\ DOMAIN response_labels = {Chr(i - 1) : i \in 1..Len(valid)}
            /\ \A i \in 1..Len(valid) : response_labels[Chr(i - 1)] = valid[i]
            /\ \A k, l \in DOMAIN response_labels :
                  response_labels[k] = response_labels[l] => k = l
            /\ {response_labels[l] : l \in DOMAIN response_labels} = RespondedNodes

\* Stage 2 is reached although the second node of the order failed
C8_Witness ==
    /\ ReachedStage2
    /\ Len(participant_order) = 3
    /\ participant_order[2] \notin RespondedNodes
    /\ response_labels["B"] = participant_order[3]

(***************************************************************************)
(* C9 as stated. Every parsed ranking stored or emitted for an evaluator   *)
(* contains only labels that are keys of the current label mapping, and no *)
(* label twice.                                                            *)
(***************************************************************************)
C9_RankingsWellFormed ==
    \A i \in FrameIdx : frames[i].type = "ranking" =>
        /\ Range(frames[i].rankings) \subseteq DOMAIN response_labels
        /\ IsDistinct(frames[i].rankings)

(***************************************************************************)
(* SpecGraph: build_execution_graph applied to every bounded council.      *)
(***************************************************************************)
InitGraph ==
    /\ gin \in [nodes : NodeLists, hint : Hints,
                edges : SeqsUpTo(GraphEdgePairs, GraphMaxEdges)]
    /\ gout = [built |-> FALSE]
    /\ OnlyGraph

BuildGraph ==
    /\ ~gout.built
    /\ gout' = [built |-> TRUE,
                graph |-> build_execution_graph(gin.nodes, gin.hint, gin.edges)]
    /\ UNCHANGED <<gin, notGraphVars>>

NextGraph == BuildGraph

SpecGraph == InitGraph /\ [][NextGraph]_vars

IsPermutationOf(order, nodes) ==
    /\ Len(order) = Len(nodes)
    /\ Range(order) = Range(nodes)
    /\ IsDistinct(order)

RespectsEdges(order, nodes, edges) ==
    \A i \in 1..Len(edges) :
        LET u == edges[i][1]
            v == edges[i][2]
        IN  (u \in Range(nodes) /\ v \in Range(nodes)) =>
               /\ IndexOf(order, u) > 0
               /\ IndexOf(order, u) < IndexOf(order, v)

(***************************************************************************)
(* C1. For an acyclic council the execution order of build_execution_graph *)
(* contains every node exactly once and, for every edge (u, v) between two *)
(* nodes of the council, places u before v.                                *)
(***************************************************************************)
C1_TopologicalOrder ==
    (gout.built /\ IsAcyclic(gin.nodes, gin.edges)) =>
        /\ IsPermutationOf(gout.graph.execution_order, gin.nodes)
        /\ RespectsEdges(gout.graph.execution_order, gin.nodes, gin.edges)

\* an acyclic council with two edges into one node whose order is not the
\* order of the node list
C1_Witness ==
    /\ gout.built
    /\ IsAcyclic(gin.nodes, gin.edges)
    /\ \E v \in Range(gin.nodes) : Len(gout.graph.incoming[v]) = 2
                                   /\ IsDistinct(gout.graph.incoming[v])
    /\ gout.graph.execution_order # gin.nodes

(***************************************************************************)
(* calculate_aggregate_rankings (backend/council.py 376-420).              *)
(* stage2_results is the list of the evaluators' reply texts (the field    *)
(* 'ranking' of each result); label_to_model maps label letters to models. *)
(* average_rank is held in hundredths.                                     *)
(***************************************************************************)
RECURSIVE SumSeq(_)
SumSeq(s) == IF s = <<>> THEN 0 ELSE Head(s) + SumSeq(Tail(s))

\* enumerate(parsed_ranking, start=0)
VotePositionFromZero(i) == i - 1

\* enumerate(parsed_ranking, start=1): the position of the i-th label
VotePosition(i) == i

\* model_positions[model_name].append(position); model_positions is the
\* list of its entries in insertion order
AppendPosition(mp, model, position) ==
    IF \E k \in 1..Len(mp) : mp[k].model = model
    THEN [k \in 1..Len(mp) |->
            IF mp[k].model = model
            THEN [mp[k] EXCEPT !.positions = Append(@, position)]
            ELSE mp[k]]
    ELSE Append(mp, [model |-> model, positions |-> <<position>>])

\* the inner loop (401-404) from index i on
RECURSIVE AddVotes(_, _, _, _)
AddVotes(parsed_ranking, i, mp, label_to_model) ==
    IF i > Len(parsed_ranking) THEN mp
    ELSE IF parsed_ranking[i] \in DOMAIN label_to_model
         THEN AddVotes(parsed_ranking, i + 1,
                       AppendPosition(mp, label_to_model[parsed_ranking[i]],
                                      VotePosition(i)),
                       label_to_model)
         ELSE AddVotes(parsed_ranking, i + 1, mp, label_to_model)

\* the outer loop (395-404)
RECURSIVE CollectPositions(_, _, _)
CollectPositions(stage2_results, mp, label_to_model) ==
    IF stage2_results = <<>> THEN mp
    ELSE CollectPositions(Tail(stage2_results),
                          AddVotes(parse_ranking_from_text(Head(stage2_results)),
                                   1, mp, label_to_model),
                          label_to_model)

\* round(total / n, 2) in hundredths; a value half-way between two
\* hundredths goes to the even one
Round2(total, n) ==
    LET q == (100 * total) \div n
        r == (100 * total) % n
    IN  IF 2 * r < n THEN q
        ELSE IF 2 * r > n THEN q + 1
        ELSE IF q % 2 = 0 THEN q ELSE q + 1

\* aggregate.sort(key=lambda x: x['average_rank']): stable
RECURSIVE InsertByRank(_, _)
InsertByRank(x, s) ==
    IF s = <<>> THEN <<x>>
    ELSE IF Head(s).average_rank <= x.average_rank
         THEN <<Head(s)>> \o InsertByRank(x, Tail(s))
         ELSE <<x>> \o s

RECURSIVE SortByRank(_)
SortByRank(s) ==
    IF s = <<>> THEN <<>>
    ELSE InsertByRank(s[Len(s)], SortByRank(SubSeq(s, 1, Len(s) - 1)))

calculate_aggregate_rankings(stage2_results, label_to_model) ==
    LET mp == CollectPositions(stage2_results, <<>>, label_to_model)
        aggregate == [k \in 1..Len(mp) |->
                        [model          |-> mp[k].model,
                         average_rank   |-> Round2(SumSeq(mp[k].positions),
                                                   Len(mp[k].positions)),
                         rankings_count |-> Len(mp[k].positions)]]
    IN  SortByRank(aggregate)

(***************************************************************************)
(* SpecAgg: calculate_aggregate_rankings applied to bounded inputs.        *)
(***************************************************************************)
\* replies of evaluators: full rankings, a label outside a small mapping,
\* a bulleted list, a numbered list with a gap, a label ranked twice
AggTexts ==
    {<<Prose, Final, Num(1, "A"), Num(2, "B"), Num(3, "C")>>,
     <<Final, Num(1, "B"), Num(2, "A"), Num(3, "C")>>,
     <<Final, Num(1, "C"), Num(2, "D")>>,
     <<Prose, Para, Bullet("B"), Bullet("A")>>,
     <<Final, Num(1, "A"), Num(3, "C")>>,
     <<Final, Num(1, "A"), Num(2, "A")>>}

AggModels == NodeIds

\* label mappings: the first n letters, each onto a model of its own
LabelMappings ==
    {f \in UNION {[{Chr(i - 1) : i \in 1..n} -> AggModels] :
                     n \in 0..Cardinality(AggModels)} :
        \A k, l \in DOMAIN f : f[k] = f[l] => k = l}

InitAgg ==
    /\ ain \in [stage2_results : SeqsUpTo(AggTexts, MaxEvaluators),
                label_to_model : LabelMappings]
    /\ aout = [done |-> FALSE]
    /\ OnlyAgg

Aggregate ==
    /\ ~aout.done
    /\ aout' = [done |-> TRUE,
                aggregate |-> calculate_aggregate_rankings(ain.stage2_results,
                                                           ain.label_to_model)]
    /\ UNCHANGED <<ain, notAggVars>>

NextAgg == Aggregate

SpecAgg == InitAgg /\ [][NextAgg]_vars

\* the parsed list of every evaluator
ParsedLists ==
    [e \in 1..Len(ain.stage2_results) |->
        parse_ranking_from_text(ain.stage2_results[e])]

\* the votes of model m: <<evaluator, position>> for every label of an
\* evaluator's parsed list that the mapping sends to m
Votes(m, parsed) ==
    {v \in (DOMAIN parsed) \X (1..10) :
        /\ v[2] <= Len(parsed[v[1]])
        /\ parsed[v[1]][v[2]] \in DOMAIN ain.label_to_model
        /\ ain.label_to_model[parsed[v[1]][v[2]]] = m}

RECURSIVE SumPositions(_)
SumPositions(V) ==
    IF V = {} THEN 0
    ELSE LET v == CHOOSE x \in V : TRUE IN v[2] + SumPositions(V \ {v})

\* the list names exactly the voted models, each once, with the number of
\* its votes; votes[m] is the set of votes of m
ListsVotedModels(agg, votes) ==
    /\ {agg[k].model : k \in 1..Len(agg)} = {m \in AggModels : votes[m] # {}}
    /\ \A j, k \in 1..Len(agg) : agg[j].model = agg[k].model => j = k
    /\ \A k \in 1..Len(agg) :
          agg[k].rankings_count = Cardinality(votes[agg[k].model])

AllVotes == LET parsed == ParsedLists
            IN  [m \in AggModels |-> Votes(m, parsed)]

(***************************************************************************)
(* C10 as stated. calculate_aggregate_rankings lists exactly the nodes     *)
(* that are the image of at least one parsed label; a node's vote count is *)
(* the number of positions it received and its score is the mean of those  *)
(* positions; labels absent from the mapping contribute to no node.        *)
(***************************************************************************)
C10_Original ==
    aout.done =>
        LET votes == AllVotes
        IN  /\ ListsVotedModels(aout.aggregate, votes)
            /\ \A k \in 1..Len(aout.aggregate) :
                  LET e == aout.aggregate[k]
                  IN  e.average_rank * e.rankings_count =
                         100 * SumPositions(votes[e.model])

(***************************************************************************)
(* C10 as amended. As stated, except that a node's score is the mean of    *)
(* its positions rounded to two decimal places.                            *)
(***************************************************************************)
C10_AggregateRankings ==
    aout.done =>
        LET votes == AllVotes
        IN  /\ ListsVotedModels(aout.aggregate, votes)
            /\ \A k \in 1..Len(aout.aggregate) :
                  LET e == aout.aggregate[k]
                      d == e.average_rank * e.rankings_count -
                              100 * SumPositions(votes[e.model])
                  IN  2 * d <= e.rankings_count /\ 2 * d >= -e.rankings_count

\* a node with the positions 1, 1, 2 (mean 4/3, score 1.33) while another
\* evaluator ranked a label the mapping does not hold
C10_Witness ==
    /\ aout.done
    /\ \E k \in 1..Len(aout.aggregate) :
          /\ aout.aggregate[k].rankings_count = 3
          /\ aout.aggregate[k].average_rank = 133
    /\ \E i \in 1..Len(ain.stage2_results) :
          Range(parse_ranking_from_text(ain.stage2_results[i]))
             \ DOMAIN ain.label_to_model # {}

(***************************************************************************)
(* C11 as stated. The aggregate list is sorted ascending by mean position; *)
(* entries with equal means are ordered by vote count descending, and      *)
(* entries equal in both by node id ascending.                             *)
(***************************************************************************)
C11_SortedWithTieBreak ==
    aout.done =>
        \A k \in 1..(Len(aout.aggregate) - 1) :
            LET a == aout.aggregate[k]
                b == aout.aggregate[k + 1]
            IN  \/ a.average_rank < b.average_rank
                \/ /\ a.average_rank = b.average_rank
                   /\ a.rankings_count > b.rankings_count
                \/ /\ a.average_rank = b.average_rank
                   /\ a.rankings_count = b.rankings_count
                   /\ a.model < b.model

(***************************************************************************)
(* SpecSection: extract_ranking_from_section applied to bounded sections.  *)
(***************************************************************************)
MaxSectionLen == 4

\* numbered items with the positions 0, 1, 2, 3 and 11, and a plain mention
SectionTokens ==
    {Num(0, "A"), Num(1, "A"), Num(1, "B"), Num(2, "A"), Num(2, "B"),
     Num(3, "A"), Num(11, "A"), Ref("C")}

\* a numbered list of eleven items
LongSection == [i \in 1..11 |-> Num(i, IF i % 2 = 0 THEN "B" ELSE "A")]

Sections == SeqsUpTo(SectionTokens, MaxSectionLen) \cup {LongSection}

InitSection ==
    /\ sin \in Sections
    /\ sout = [done |-> FALSE]
    /\ OnlySection

ExtractSection ==
    /\ ~sout.done
    /\ sout' = [done |-> TRUE, result |-> extract_ranking_from_section(sin)]
    /\ UNCHANGED <<sin, notSectionVars>>

NextSection == ExtractSection

SpecSection == InitSection /\ [][NextSection]_vars

\* indices of the numbered items of the section with position n
ItemsAt(n) == {i \in 1..Len(sin) : sin[i].k = "num" /\ sin[i].n = n}

\* the largest m such that every position 1..m has a numbered item
ConsecutiveUpTo ==
    LET full == {m \in 0..10 : \A n \in 1..m : ItemsAt(n) # {}}
    IN  CHOOSE m \in full : \A j \in full : j <= m

(***************************************************************************)
(* C12. For any sequence of numbered 'Response X' matches in a section the *)
(* parser keeps the first letter seen for each position in 1..10 and       *)
(* returns the letters of the positions 1..m, m being the largest number   *)
(* such that all of 1..m are present; it returns the empty list when       *)
(* position 1 is missing or m < 2.                                         *)
(***************************************************************************)
C12_FirstLetterConsecutive ==
    sout.done =>
        LET m == ConsecutiveUpTo
        IN  sout.result =
               IF m < 2 THEN <<>>
               ELSE [n \in 1..m |-> sin[Min(ItemsAt(n))].l]

\* a ranking is returned from a section that names a position twice with
\* different letters and holds an item that is not returned
C12_Witness ==
    /\ sout.done
    /\ Len(sout.result) >= 2
    /\ \E n \in 1..Len(sout.result) :
          \E i, j \in ItemsAt(n) : sin[i].l # sin[j].l
    /\ \E i \in 1..Len(sin) : sin[i].k = "num" /\ sin[i].n > Len(sout.result)

(***************************************************************************)
(* ResilientCouncil.execute_with_fallback (backend/resilience.py 26-96).   *)
(* A model is named by a string; query_models_parallel returns a response  *)
(* or None for each model it was given.                                    *)
(***************************************************************************)
MaxPrimaries == 3       \* longest primary_models list
MaxQuorum == 3          \* largest min_responses_required

\* FALLBACK_MODELS (config.py 44-48)
FALLBACK_MODELS ==
    <<"anthropic/claude-3.5-haiku", "openai/gpt-4o-mini", "deepseek/deepseek-chat">>

\* models a caller may name as primaries: two of them are fallback models
\* too, as deepseek/deepseek-chat is in COUNCIL_MODELS
PrimaryPool ==
    {"anthropic/claude-3.5-sonnet", "openai/gpt-4o", "deepseek/deepseek-chat",
     "anthropic/claude-3.5-haiku"}

\* s[:n]
Take(s, n) == SubSeq(s, 1, IF n < Len(s) THEN n ELSE Len(s))

\* the fallback list without the test against primary_models
AllFallbacks(primaries, successful) == FALLBACK_MODELS

\* available_fallbacks (67-70)
AvailableFallbacks(primaries, successful) ==
    FilterSeq(FALLBACK_MODELS,
              Range(FALLBACK_MODELS) \ (Range(primaries) \cup Range(successful)))

\* one entry of fb_calls per model of a query_models_parallel call
FbCall(batch, model, ok) == [batch |-> batch, model |-> model, ok |-> ok]

InitFallback ==
    /\ fb_pc = "start"
    /\ primary_models \in {s \in SeqsUpTo(PrimaryPool, MaxPrimaries) : IsDistinct(s)}
    /\ min_responses_required \in 1..MaxQuorum
    /\ successful_responses = <<>>
    /\ failed_models = <<>>
    /\ fb_calls = <<>>
    /\ OnlyFallback

\* the primaries are queried and sorted into successes and failures (45-55);
\* ok is the set of models that returned a response
QueryPrimaries ==
    /\ fb_pc = "start"
    /\ \E ok \in SUBSET Range(primary_models) :
        LET succ   == FilterSeq(primary_models, ok)
            failed == FilterSeq(primary_models, Range(primary_models) \ ok)
            needed == min_responses_required - Len(succ)
        IN  /\ successful_responses' = succ
            /\ failed_models' = failed
            /\ fb_calls' = [i \in 1..Len(primary_models) |->
                              FbCall(1, primary_models[i], primary_models[i] \in ok)]
            /\ fb_pc' = IF Len(succ) >= min_responses_required THEN "done"
                        ELSE IF failed # <<>> /\ needed > 0
                                /\ AvailableFallbacks(primary_models, succ) # <<>>
                             THEN "fallback"
                             ELSE "done"
    /\ UNCHANGED <<primary_models, min_responses_required, notFallbackVars>>

\* the fallbacks are queried (72-85)
QueryFallbacks ==
    /\ fb_pc = "fallback"
    /\ LET models_needed == min_responses_required - Len(successful_responses)
           fallback_to_use ==
               Take(AvailableFallbacks(primary_models, successful_responses),
                    models_needed)
       IN  \E ok \in SUBSET Range(fallback_to_use) :
             /\ successful_responses' =
                   successful_responses \o FilterSeq(fallback_to_use, ok)
             /\ fb_calls' = fb_calls \o
                   [i \in 1..Len(fallback_to_use) |->
                       FbCall(2, fallback_to_use[i], fallback_to_use[i] \in ok)]
    /\ fb_pc' = "done"
    /\ UNCHANGED <<primary_models, min_responses_required, failed_models,
                   notFallbackVars>>

NextFallback == QueryPrimaries \/ QueryFallbacks

SpecFallback == InitFallback /\ [][NextFallback]_vars

\* the primaries that succeeded and the fallback models that were invoked
PrimarySuccesses == {i \in 1..Len(fb_calls) : fb_calls[i].batch = 1 /\ fb_calls[i].ok}
InvokedFallbacks == {i \in 1..Len(fb_calls) : fb_calls[i].batch = 2}

(***************************************************************************)
(* C13. execute_with_fallback invokes no fallback model when at least Q    *)
(* primaries succeed; when k < Q primaries succeed it invokes at most      *)
(* Q - k fallback models, none of them a member of the primary set.        *)
(***************************************************************************)
C13_FallbackQuorum ==
    fb_pc # "start" =>
        LET k == Cardinality(PrimarySuccesses)
            Q == min_responses_required
        IN  /\ k >= Q => InvokedFallbacks = {}
            /\ k < Q => Cardinality(InvokedFallbacks) <= Q - k
            /\ \A i \in InvokedFallbacks :
                  fb_calls[i].model \notin Range(primary_models)

\* two fallbacks were invoked for two missing responses while a fallback
\* model that is also a primary was passed over
C13_Witness ==
    /\ fb_pc = "done"
    /\ Cardinality(InvokedFallbacks) = 2
    /\ min_responses_required - Cardinality(PrimarySuccesses) = 2
    /\ FALLBACK_MODELS[1] \in Range(primary_models)

(***************************************************************************)
(* ResilientCouncil.execute_with_retry (backend/resilience.py 98-129).     *)
(***************************************************************************)
\* self.retry_attempts is 2 and self.retry_delay 1.0 by default (23-24)
MaxRetryAttempts == 3   \* largest self.retry_attempts
MaxRetryDelay == 3      \* largest self.retry_delay, in seconds

\* delay = self.retry_delay * (2 ** (attempt - 1)) (line 116)
RetryDelay(base, n) == base * 2 ^ (n - 1)

InitRetry ==
    /\ rt_pc = "loop"
    /\ retry_attempts \in 1..MaxRetryAttempts
    /\ retry_delay \in 1..MaxRetryDelay
    /\ attempt = 0
    /\ sleeps = <<>>
    /\ rt_log = <<>>
    /\ rt_result = NoValue
    /\ OnlyRetry

\* one pass of "for attempt in range(self.retry_attempts)" (114-125):
\* query_model returns a response, returns None or raises
Attempt ==
    /\ rt_pc = "loop"
    /\ attempt < retry_attempts
    /\ sleeps' = IF attempt > 0
                 THEN Append(sleeps, RetryDelay(retry_delay, attempt))
                 ELSE sleeps
    /\ \E outcome \in {"ok", "none", "raise"} :
         /\ rt_log' = Append(rt_log, outcome)
         /\ IF outcome = "ok"
            THEN rt_pc' = "done" /\ rt_result' = "response" /\ attempt' = attempt
            ELSE rt_pc' = "loop" /\ rt_result' = rt_result /\ attempt' = attempt + 1
    /\ UNCHANGED <<retry_attempts, retry_delay, notRetryVars>>

\* the loop is exhausted: return None (127-129)
GiveUp ==
    /\ rt_pc = "loop"
    /\ attempt >= retry_attempts
    /\ rt_pc' = "done"
    /\ rt_result' = "None"
    /\ UNCHANGED <<retry_attempts, retry_delay, attempt, sleeps, rt_log,
                   notRetryVars>>

NextRetry == Attempt \/ GiveUp

SpecRetry == InitRetry /\ [][NextRetry]_vars

MaxTtl == 1        \* largest self.ttl, in seconds
MaxClock == 2      \* the clock runs from 0 to MaxClock seconds
MaxCacheOps == 4   \* number of get and set calls followed

CacheModels == {"openai/gpt-4o", "council:complete"}
CacheMessages == {"q1"}
CacheResponses == {"r1", "r2"}

\* get_cache_key hashes the model and the messages; the key is modelled
\* by the pair itself (hash collisions are left out).
get_cache_key(model, messages) == <<model, messages>>

CacheKeys == {get_cache_key(m, q) : m \in CacheModels, q \in CacheMessages}

\* "datetime.now() <= entry['expiry']" in place of the strict comparison
FreshInclusive(t, expiry) == t <= expiry

\* if datetime.now() < entry["expiry"]
Fresh(t, expiry) == t < expiry

\* del self.memory_cache[key]
Without(mc, key) == [k \in DOMAIN mc \ {key} |-> mc[k]]

\* ResponseCache.get on the in-memory cache mc at time t: the cache
\* afterwards, the returned value (NoValue for None) and whether it hit.
ResponseCache_get(mc, key, t) ==
    IF key \in DOMAIN mc
    THEN IF Fresh(t, mc[key].expiry)
         THEN [cache |-> mc, result |-> mc[key].data, hit |-> TRUE]
         ELSE [cache |-> Without(mc, key), result |-> NoValue, hit |-> FALSE]
    ELSE [cache |-> mc, result |-> NoValue, hit |-> FALSE]

\* ResponseCache.set on the in-memory cache mc at time t with self.ttl
ResponseCache_set(mc, key, response, t, ttl) ==
    [k \in DOMAIN mc \cup {key} |->
        IF k = key THEN [data |-> response, expiry |-> t + ttl] ELSE mc[k]]

\* ResponseCache.clear_expired at time t
ResponseCache_clear_expired(mc, t) ==
    [k \in {x \in DOMAIN mc : ~ (t >= mc[x].expiry)} |-> mc[k]]

CacheOp(op, key, value, t) == [op |-> op, key |-> key, value |-> value, at |-> t]

InitCache ==
    /\ cache_pc = "on"
    /\ cache_ttl \in 0..MaxTtl
    /\ cache_now = 0
    /\ memory_cache = <<>>
    /\ cache_stats = [hits |-> 0, misses |-> 0, saves |-> 0]
    /\ cache_ops = <<>>
    /\ OnlyCache

CacheGet ==
    /\ cache_pc = "on"
    /\ Len(cache_ops) < MaxCacheOps
    /\ \E key \in CacheKeys :
        LET r == ResponseCache_get(memory_cache, key, cache_now) IN
        /\ memory_cache' = r.cache
        /\ cache_stats' = IF r.hit
                          THEN [cache_stats EXCEPT !.hits = @ + 1]
                          ELSE [cache_stats EXCEPT !.misses = @ + 1]
        /\ cache_ops' = Append(cache_ops, CacheOp("get", key, r.result, cache_now))
    /\ UNCHANGED <<cache_pc, cache_ttl, cache_now, notCacheVars>>

CacheSet ==
    /\ cache_pc = "on"
    /\ Len(cache_ops) < MaxCacheOps
    /\ \E key \in CacheKeys, response \in CacheResponses :
        /\ memory_cache' = ResponseCache_set(memory_cache, key, response,
                                             cache_now, cache_ttl)
        /\ cache_ops' = Append(cache_ops, CacheOp("set", key, response, cache_now))
    /\ cache_stats' = [cache_stats EXCEPT !.saves = @ + 1]
    /\ UNCHANGED <<cache_pc, cache_ttl, cache_now, notCacheVars>>

ClearExpired ==
    /\ cache_pc = "on"
    /\ memory_cache' = ResponseCache_clear_expired(memory_cache, cache_now)
    /\ UNCHANGED <<cache_pc, cache_ttl, cache_now, cache_stats, cache_ops,
                   notCacheVars>>

\* a second passes
Tick ==
    /\ cache_pc = "on"
    /\ cache_now < MaxClock
    /\ cache_now' = cache_now + 1
    /\ UNCHANGED <<cache_pc, cache_ttl, memory_cache, cache_stats, cache_ops,
                   notCacheVars>>

NextCache == CacheGet \/ CacheSet \/ ClearExpired \/ Tick

SpecCache == InitCache /\ [][NextCache]_vars

\* the latest set of the key of operation i before it, 0 when there is none
LatestSet(i) ==
    LET js == {j \in 1..(i - 1) : /\ cache_ops[j].op = "set"
                                  /\ cache_ops[j].key = cache_ops[i].key}
    IN IF js = {} THEN 0 ELSE CHOOSE j \in js : \A k \in js : k <= j

\* get number i came at or after the expiry of the latest set of its key
GetAfterExpiry(i) ==
    /\ cache_ops[i].op = "get"
    /\ LatestSet(i) # 0
    /\ cache_ops[i].at >= cache_ops[LatestSet(i)].at + cache_ttl

\* C15: a get before the expiry (set time + ttl) of the latest set of its
\* key returns the value of that set; a get at or after the expiry returns
\* absent and the entry is gone, so that every later get of the key is
\* absent until the key is set again.
C15_GetWithinTtl ==
    /\ \A i \in 1..Len(cache_ops) :
        cache_ops[i].op = "get" =>
            LET j == LatestSet(i) IN
            IF j # 0 /\ cache_ops[i].at < cache_ops[j].at + cache_ttl
            THEN cache_ops[i].value = cache_ops[j].value
            ELSE cache_ops[i].value = NoValue
    /\ \A i \in 1..Len(cache_ops) :
        (/\ GetAfterExpiry(i)
         /\ \A k \in (i + 1)..Len(cache_ops) :
                ~ (cache_ops[k].op = "set" /\ cache_ops[k].key = cache_ops[i].key))
        => cache_ops[i].key \notin DOMAIN memory_cache

\* a set, a get that returned its value, and a get at the expiry that
\* returned absent and removed the entry
C15_Witness ==
    \E i, k \in 1..Len(cache_ops) :
        /\ i < k
        /\ cache_ops[i].op = "get"
        /\ cache_ops[i].value # NoValue
        /\ cache_ops[k].key = cache_ops[i].key
        /\ LatestSet(k) = LatestSet(i)
        /\ GetAfterExpiry(k)
        /\ cache_ops[k].at = cache_ops[LatestSet(k)].at + cache_ttl
        /\ cache_ops[k].key \notin DOMAIN memory_cache

\* ---------------------------------------------------------------------
\* SpecTracker: the CostTracker (backend/cost_tracker.py) under
\* track_usage and reset.  Money is counted in billionths of a dollar
\* (nano-dollars), so that a price of p dollars per million tokens is
\* 1000 * p nano-dollars per token.
\* ---------------------------------------------------------------------

MaxRecords == 3    \* number of track_usage calls followed

\* token counts handed to track_usage
TokenCounts == {0, 10}

\* self.budget_limit: nothing, 0.0001, 0.0002 and 1.5 dollars
BudgetLimits == {0, 100000, 200000, 1500000000}

Price(input, output) == [input |-> input, output |-> output]

\* MODEL_PRICING (config.py 54-71), per token
MODEL_PRICING ==
    [m \in {"anthropic/claude-3.5-sonnet", "anthropic/claude-3.5-haiku",
            "anthropic/claude-3-opus", "openai/gpt-4o", "openai/gpt-4o-mini",
            "openai/gpt-4-turbo", "google/gemini-1.5-pro",
            "google/gemini-1.5-flash", "deepseek/deepseek-chat",
            "meta-llama/llama-3.1-70b-instruct",
            "meta-llama/llama-3.1-8b-instruct"} |->
        CASE m = "anthropic/claude-3.5-sonnet" -> Price(3000, 15000)
          [] m = "anthropic/claude-3.5-haiku" -> Price(250, 1250)
          [] m = "anthropic/claude-3-opus" -> Price(15000, 75000)
          [] m = "openai/gpt-4o" -> Price(2500, 10000)
          [] m = "openai/gpt-4o-mini" -> Price(150, 600)
          [] m = "openai/gpt-4-turbo" -> Price(10000, 30000)
          [] m = "google/gemini-1.5-pro" -> Price(1250, 5000)
          [] m = "google/gemini-1.5-flash" -> Price(75, 300)
          [] m = "deepseek/deepseek-chat" -> Price(140, 280)
          [] m = "meta-llama/llama-3.1-70b-instruct" -> Price(520, 750)
          [] m = "meta-llama/llama-3.1-8b-instruct" -> Price(55, 55)]

TrackedModels == {"anthropic/claude-3.5-sonnet", "custom/unlisted-model"}

\* MODEL_COSTS.get(model, 0.001): the cost of 1K tokens, which is the sum
\* of the input and output price per million tokens over 2000 (config.py
\* 74-77), and 0.001 dollars for a model that is not listed
CostPer1K(model) ==
    IF model \in DOMAIN MODEL_PRICING
    THEN (MODEL_PRICING[model].input + MODEL_PRICING[model].output) * 500
    ELSE 1000000

\* round(x, 6) of an amount of n tenths of a nano-dollar: to the nearest
\* millionth of a dollar, halves upwards
Round6(n) == ((n + 5000) \div 10000) * 1000

\* the detailed branch of track_usage is taken
DetailedPricing(model, input_tokens, output_tokens) ==
    model \in DOMAIN MODEL_PRICING /\ (input_tokens > 0 \/ output_tokens > 0)

\* cost, input_cost and output_cost of track_usage (94-104); the two
\* parts are kept in tenths of a nano-dollar until they are rounded
UsageCost(model, tokens, input_tokens, output_tokens) ==
    IF DetailedPricing(model, input_tokens, output_tokens)
    THEN LET ic == input_tokens * MODEL_PRICING[model].input
             oc == output_tokens * MODEL_PRICING[model].output
         IN [cost |-> ic + oc, input_cost |-> 10 * ic, output_cost |-> 10 * oc]
    ELSE LET c == (tokens * CostPer1K(model)) \div 1000
         IN [cost |-> c, input_cost |-> 3 * c, output_cost |-> 7 * c]

\* cost_info of track_usage (109-118), without response_time
CostInfo(model, tokens, input_tokens, output_tokens) ==
    LET u == UsageCost(model, tokens, input_tokens, output_tokens) IN
    [model |-> model,
     input_tokens |-> IF input_tokens # 0 THEN input_tokens
                      ELSE (3 * tokens) \div 10,
     output_tokens |-> IF output_tokens # 0 THEN output_tokens
                       ELSE (7 * tokens) \div 10,
     total_tokens |-> IF tokens # 0 THEN tokens
                      ELSE input_tokens + output_tokens,
     input_cost |-> Round6(u.input_cost),
     output_cost |-> Round6(u.output_cost),
     total_cost |-> Round6(10 * u.cost),
     cost |-> u.cost]

NewUsage ==
    [count |-> 0, total_tokens |-> 0, input_tokens |-> 0,
     output_tokens |-> 0, total_cost |-> 0]

\* self.model_usage after track_usage with the test of line 127 dropped: the
\* rollup of the model starts afresh at every call
AddUsageAfresh(usage, info) ==
    [m \in DOMAIN usage \cup {info.model} |->
        IF m = info.model
        THEN [count |-> 1, total_tokens |-> info.total_tokens,
              input_tokens |-> info.input_tokens,
              output_tokens |-> info.output_tokens, total_cost |-> info.cost]
        ELSE usage[m]]

\* self.model_usage after track_usage (127-140)
AddUsage(usage, info) ==
    LET old == IF info.model \in DOMAIN usage THEN usage[info.model]
               ELSE NewUsage
        new == [count |-> old.count + 1,
                total_tokens |-> old.total_tokens + info.total_tokens,
                input_tokens |-> old.input_tokens + info.input_tokens,
                output_tokens |-> old.output_tokens + info.output_tokens,
                total_cost |-> old.total_cost + info.cost]
    IN [m \in DOMAIN usage \cup {info.model} |->
            IF m = info.model THEN new ELSE usage[m]]

\* the whole of track_usage on a tracker [spend, history, usage]
track_usage(tr, model, tokens, input_tokens, output_tokens) ==
    LET info == CostInfo(model, tokens, input_tokens, output_tokens) IN
    [spend |-> tr.spend + info.cost,
     history |-> Append(tr.history, [f \in DOMAIN info \ {"cost"} |-> info[f]]),
     usage |-> AddUsage(tr.usage, info)]

\* "(self.current_spend + estimated_cost) >= self.budget_limit" as the test
CanProceedBelow(limit, spend, estimated_cost) == ~ (spend + estimated_cost >= limit)

\* can_proceed: not (self.current_spend + estimated_cost) > self.budget_limit
can_proceed(limit, spend, estimated_cost) == ~ (spend + estimated_cost > limit)

\* "self.budget_limit - self.current_spend" without the max(0, ...)
RemainingUnclamped(limit, spend) == limit - spend

\* get_remaining_budget: max(0, self.budget_limit - self.current_spend)
get_remaining_budget(limit, spend) ==
    IF limit - spend > 0 THEN limit - spend ELSE 0

InitTracker ==
    /\ tr_pc = "on"
    /\ budget_limit \in BudgetLimits
    /\ current_spend = 0
    /\ cost_history = <<>>
    /\ model_usage = <<>>
    /\ OnlyTracker

TrackUsage ==
    /\ tr_pc = "on"
    /\ Len(cost_history) < MaxRecords
    /\ \E model \in TrackedModels, tokens, input_tokens, output_tokens \in TokenCounts :
        LET tr == track_usage([spend |-> current_spend, history |-> cost_history,
                               usage |-> model_usage],
                              model, tokens, input_tokens, output_tokens)
        IN /\ current_spend' = tr.spend
           /\ cost_history' = tr.history
           /\ model_usage' = tr.usage
    /\ UNCHANGED <<tr_pc, budget_limit, notTrackerVars>>

Reset ==
    /\ tr_pc = "on"
    /\ cost_history # <<>>
    /\ current_spend' = 0
    /\ cost_history' = <<>>
    /\ model_usage' = <<>>
    /\ UNCHANGED <<tr_pc, budget_limit, notTrackerVars>>

NextTracker == TrackUsage \/ Reset

SpecTracker == InitTracker /\ [][NextTracker]_vars

Remaining == get_remaining_budget(budget_limit, current_spend)

\* the step is a track_usage call
IsRecord == Len(cost_history') = Len(cost_history) + 1

\* C17 as stated: get_remaining_budget() is exactly ceiling - spend
C17_Original == Remaining = budget_limit - current_spend

\* C17: no track_usage call with non-negative token counts raises
\* get_remaining_budget(), and in every state it is ceiling - spend while
\* the spend is within the ceiling and 0 once the spend has passed the
\* ceiling.
C17_RemainingBudget ==
    /\ [][IsRecord => Remaining' <= Remaining]_vars
    /\ [](/\ current_spend <= budget_limit => Remaining = budget_limit - current_spend
          /\ current_spend > budget_limit => Remaining = 0)

\* recorded calls have taken the spend past a positive ceiling
C17_Witness ==
    /\ Len(cost_history) >= 2
    /\ budget_limit > 0
    /\ current_spend > budget_limit
    /\ cost_history[1].total_cost > 0
    /\ cost_history[1].total_cost < budget_limit

\* ---------------------------------------------------------------------
\* SpecCouncil: run_full_council (backend/council.py 461-570), one run
\* after another on the module's shared cache, query_cache and
\* cost_tracker.  A run proceeds stage by stage; between runs a whole
\* cache lifetime may pass.  The texts of the replies, label_to_model and
\* aggregate_rankings are left out of the results.
\* ---------------------------------------------------------------------

MaxRuns == 2     \* number of run_full_council calls followed
MaxWaits == 1    \* number of times a cache lifetime passes

\* DEFAULT_CACHE_TTL (config.py 90), in seconds
DEFAULT_CACHE_TTL == 86400

\* resilient_council = ResilientCouncil(min_responses_required=3)
CouncilQuorum == 3

COUNCIL_MODELS ==
    <<"anthropic/claude-3.5-sonnet", "openai/gpt-4o", "google/gemini-1.5-pro",
      "deepseek/deepseek-chat", "meta-llama/llama-3.1-70b-instruct">>

CHAIRMAN_MODEL == "anthropic/claude-3.5-sonnet"

\* SmartModelSelector.COMPLEXITY_KEYWORDS
COMPLEXITY_KEYWORDS ==
    [simple |-> {"what is", "when is", "who is", "where is", "define",
                 "meaning of", "capital of", "how many"},
     medium |-> {"explain", "describe", "compare", "analyze", "summarize",
                 "list", "outline", "discuss"},
     complex |-> {"evaluate", "critique", "synthesize", "design", "architect",
                  "optimize", "prove", "derive", "implement", "debug",
                  "refactor"}]

\* SmartModelSelector.MODEL_TIERS
MODEL_TIERS ==
    [budget |-> <<"deepseek/deepseek-chat", "anthropic/claude-3.5-haiku",
                  "openai/gpt-4o-mini", "google/gemini-1.5-flash">>,
     standard |-> <<"anthropic/claude-3.5-sonnet", "openai/gpt-4o",
                    "google/gemini-1.5-pro", "deepseek/deepseek-chat">>,
     premium |-> <<"anthropic/claude-3.5-sonnet", "anthropic/claude-3-opus",
                   "openai/gpt-4o", "google/gemini-1.5-pro">>]

\* A query is modelled by the set of keyword phrases its lower-cased text
\* contains.
CouncilQueries == {{"what is"}, {"design", "what is"}}

\* council_config = None
NoConfig == [given |-> FALSE, agents |-> <<>>]

\* a council configuration as CouncilComposer.compose returns it, reduced
\* to the models of its agents
CouncilConfigs ==
    {[given |-> TRUE,
      agents |-> <<"openai/gpt-4-turbo", "meta-llama/llama-3.1-8b-instruct">>]}

\* the (user_query, use_cache, council_config) arguments of the runs
RunArgs ==
    {[user_query |-> q, use_cache |-> TRUE, council_config |-> NoConfig] :
        q \in CouncilQueries}
    \cup {[user_query |-> q, use_cache |-> FALSE, council_config |-> g] :
            q \in {{"what is"}}, g \in CouncilConfigs}

\* cost_tracker.budget_limit: 0.003 and 1.5 dollars
CouncilBudgets == {3000000, 1500000000}

\* How the upstream service answers one stage: every model with a valid
\* body, no model at all, two models with a body that is too short, only
\* two models, or every model with a body that is too short.  The ranking
\* call of Stage 2 is followed with every model answering.
Upstreams == {"all", "none", "short", "few", "invalid"}
Stage2Upstreams == {"all"}
Stage3Upstreams == {"all", "none"}

Answer(up, model) ==
    CASE up = "all" -> "ok"
      [] up = "none" -> "none"
      [] up = "short" ->
            IF model \in {"deepseek/deepseek-chat", "anthropic/claude-3.5-sonnet"}
            THEN "short" ELSE "ok"
      [] up = "few" ->
            IF model \in {"deepseek/deepseek-chat", "anthropic/claude-3.5-sonnet"}
            THEN "ok" ELSE "none"
      [] up = "invalid" -> "short"

\* the response dict of query_model (openrouter.py 75-79)
Response(content) ==
    [content |-> content,
     usage |-> [prompt_tokens |-> 1000, completion_tokens |-> 1000,
                total_tokens |-> 2000]]

\* SmartModelSelector.assess_complexity
assess_complexity(query) ==
    IF query \cap COMPLEXITY_KEYWORDS.complex # {} THEN "complex"
    ELSE IF query \cap COMPLEXITY_KEYWORDS.simple # {} THEN "simple"
    ELSE "medium"

\* the tier of SmartModelSelector.select_models without force_tier; 0.5
\* and 1.0 dollars are the two floors
SelectTier(query, budget_remaining) ==
    LET complexity == assess_complexity(query)
        tier == IF budget_remaining < 500000000 THEN "budget"
                ELSE IF complexity = "simple" THEN "budget"
                ELSE IF complexity = "medium" THEN "standard"
                ELSE "premium"
    IN IF budget_remaining < 1000000000 /\ tier = "premium" THEN "standard"
       ELSE tier

\* SmartModelSelector.select_models
select_models(query, budget_remaining) ==
    MODEL_TIERS[SelectTier(query, budget_remaining)]

\* selected_models of stage1_collect_responses (39-47): run_full_council
\* leaves use_smart_selection at True, and council_config is not read
SelectedModels(args, budget_remaining) ==
    select_models(args.user_query, budget_remaining)

\* round(x, 4) of n nano-dollars, halves upwards
Round4(n) == ((n + 50000) \div 100000) * 100000

RECURSIVE EstimateSum(_)
EstimateSum(models) ==
    IF models = <<>> THEN 0
    ELSE 2 * CostPer1K(Head(models)) + EstimateSum(Tail(models))

\* CostTracker.estimate_cost with estimated_tokens = 2000
estimate_cost(models) == Round4(EstimateSum(models))

\* the for loop over cache.get (59-65): the cache afterwards, the hits as
\* <<model, response>> pairs and the models that missed
RECURSIVE CachedResponses(_, _, _, _)
CachedResponses(mc, models, query, t) ==
    IF models = <<>>
    THEN [cache |-> mc, cached |-> <<>>, uncached |-> <<>>]
    ELSE LET g == ResponseCache_get(mc, get_cache_key(Head(models), query), t)
             rest == CachedResponses(g.cache, Tail(models), query, t)
         IN IF g.hit
            THEN [rest EXCEPT !.cached = <<<<Head(models), g.result>>>> \o @]
            ELSE [rest EXCEPT !.uncached = <<Head(models)>> \o @]

\* the non-None answers of one query_models_parallel call, in dict order
Responding(models, up) ==
    FilterSeq(models, {m \in Range(models) : Answer(up, m) # "none"})

\* execute_with_fallback (resilience.py 26-96) under the upstream up: the
\* batches it sent and the models in successful_responses, in order
FallbackRun(primaries, up) ==
    LET ok1 == Responding(primaries, up)
        needed == CouncilQuorum - Len(ok1)
        avail == AvailableFallbacks(primaries, ok1)
        batch2 == IF Len(ok1) >= CouncilQuorum \/ Len(ok1) = Len(primaries)
                     \/ avail = <<>>
                  THEN <<>> ELSE Take(avail, needed)
    IN [batches |-> <<primaries>> \o (IF batch2 = <<>> THEN <<>> ELSE <<batch2>>),
        successful |-> ok1 \o Responding(batch2, up)]

\* cache.set and cost_tracker.track_usage for every fresh response (77-87)
RECURSIVE StoreFresh(_, _, _, _, _, _, _)
StoreFresh(mc, tr, models, up, query, t, ttl) ==
    IF models = <<>> THEN [cache |-> mc, tracker |-> tr]
    ELSE LET r == Response(Answer(up, Head(models)))
             mc2 == ResponseCache_set(mc, get_cache_key(Head(models), query),
                                      r, t, ttl)
             tr2 == track_usage(tr, Head(models), r.usage.total_tokens,
                                r.usage.prompt_tokens, r.usage.completion_tokens)
         IN StoreFresh(mc2, tr2, Tail(models), up, query, t, ttl)

\* resilient_council.validate_response
validate_response(response) == response.content = "ok"

\* calc_cost (98-104)
calc_cost(model, usage) ==
    IF model \in DOMAIN MODEL_PRICING
    THEN Round6(10 * (usage.prompt_tokens * MODEL_PRICING[model].input
                      + usage.completion_tokens * MODEL_PRICING[model].output))
    ELSE 0

\* stage1_results (107-121) from the <<model, response>> pairs
RECURSIVE Stage1Results(_)
Stage1Results(pairs) ==
    IF pairs = <<>> THEN <<>>
    ELSE LET m == Head(pairs)[1]
             r == Head(pairs)[2]
         IN (IF validate_response(r)
             THEN <<[model |-> m, response |-> r.content,
                     cost |-> calc_cost(m, r.usage)]>>
             ELSE <<>>) \o Stage1Results(Tail(pairs))

\* PartialResponseHandler.adjust_stage2_for_partial
adjust_stage2_for_partial(results) ==
    IF Len(results) < 2 THEN <<>> ELSE results

ErrorResult(s1, text, error, cost) ==
    [stage1 |-> s1, stage2 |-> <<>>,
     stage3 |-> [model |-> "error", response |-> text],
     metadata |-> [error |-> error, cost |-> cost]]

UpstreamCall(n, stage, models) == [run |-> n, stage |-> stage, models |-> models]

\* what a run returned, with its arguments and the time of the return
Returned(args, result) == [args |-> args, result |-> result, at |-> cache_now]

\* a cached result served with its metadata as it was stored
CacheHitMetadataAsStored(metadata) == metadata

\* cached_result["metadata"]["cache_hit"] = True and ["cost"] = 0.0 (482-483)
CacheHitMetadata(metadata) == [metadata EXCEPT !.cache_hit = TRUE, !.cost = 0]


CompleteKey(query) == get_cache_key("council:complete", query)

Tracker == [spend |-> current_spend, history |-> cost_history, usage |-> model_usage]

RunNumber == Len(returns) + 1

InitCouncil ==
    /\ rc_pc = "idle"
    /\ run = NoValue
    /\ initial_spend = 0
    /\ selected_models = <<>>
    /\ rc_stage1 = <<>>
    /\ rc_stage2 = <<>>
    /\ upstream_calls = <<>>
    /\ returns = <<>>
    /\ waited = 0
    /\ cache_pc = "shared"
    /\ cache_ttl = DEFAULT_CACHE_TTL
    /\ cache_now = 0
    /\ memory_cache = <<>>
    /\ cache_stats = [hits |-> 0, misses |-> 0, saves |-> 0]
    /\ cache_ops = <<>>
    /\ tr_pc = "shared"
    /\ budget_limit \in CouncilBudgets
    /\ current_spend = 0
    /\ cost_history = <<>>
    /\ model_usage = <<>>
    /\ OnlyCouncil

\* run_full_council 476-489: the complete result is in the cache.  The
\* cached dict is the stored object itself, so the two assignments to its
\* metadata also change the stored entry.
ServeCached ==
    /\ rc_pc = "idle"
    /\ Len(returns) < MaxRuns
    /\ \E args \in RunArgs :
        LET g == ResponseCache_get(memory_cache, CompleteKey(args.user_query),
                                   cache_now)
            md == CacheHitMetadata(g.result.metadata)
            served == [g.result EXCEPT !.metadata = md]
        IN /\ args.use_cache
           /\ g.hit
           /\ memory_cache' = [g.cache EXCEPT
                                  ![CompleteKey(args.user_query)].data = served]
           /\ cache_stats' = [cache_stats EXCEPT !.hits = @ + 1]
           /\ returns' = Append(returns,
                  Returned(args, [stage1 |-> served.stage1, stage2 |-> served.stage2,
                                  stage3 |-> served.stage3, metadata |-> md]))
    /\ UNCHANGED <<rc_pc, run, initial_spend, selected_models, rc_stage1,
                   rc_stage2, upstream_calls, waited, cache_pc, cache_ttl,
                   cache_now, cache_ops, trackerVars, notCouncilVars>>

\* run_full_council 476-492 without a usable cached result
BeginRun ==
    /\ rc_pc = "idle"
    /\ Len(returns) < MaxRuns
    /\ \E args \in RunArgs :
        LET g == ResponseCache_get(memory_cache, CompleteKey(args.user_query),
                                   cache_now)
        IN /\ args.use_cache => ~ g.hit
           /\ memory_cache' = IF args.use_cache THEN g.cache ELSE memory_cache
           /\ cache_stats' = IF args.use_cache
                             THEN [cache_stats EXCEPT !.misses = @ + 1]
                             ELSE cache_stats
           /\ run' = args
    /\ initial_spend' = current_spend
    /\ rc_pc' = "stage1"
    /\ UNCHANGED <<selected_models, rc_stage1, rc_stage2, upstream_calls, returns,
                   waited, cache_pc, cache_ttl, cache_now, cache_ops, trackerVars,
                   notCouncilVars>>

\* stage1_collect_responses 39-53 raises ValueError, caught at 556-562
BudgetExceeded ==
    /\ rc_pc = "stage1"
    /\ LET models == SelectedModels(run, get_remaining_budget(budget_limit,
                                                             current_spend))
       IN /\ ~ can_proceed(budget_limit, current_spend, estimate_cost(models))
          /\ selected_models' = models
    /\ returns' = Append(returns,
          Returned(run, ErrorResult(<<>>, "Budget limit exceeded",
                                    "budget_exceeded",
                                    current_spend - initial_spend)))
    /\ rc_pc' = "idle"
    /\ UNCHANGED <<run, initial_spend, rc_stage1, rc_stage2, upstream_calls,
                   waited, cacheVars, trackerVars, notCouncilVars>>

\* stage1_collect_responses within budget, then run_full_council 501-515
Stage1 ==
    /\ rc_pc = "stage1"
    /\ \E up \in Upstreams :
        LET models == SelectedModels(run, get_remaining_budget(budget_limit,
                                                               current_spend))
            c == CachedResponses(memory_cache, models, run.user_query, cache_now)
            f == IF c.uncached = <<>> THEN [batches |-> <<>>, successful |-> <<>>]
                 ELSE FallbackRun(c.uncached, up)
            st == StoreFresh(c.cache, Tracker, f.successful, up, run.user_query,
                             cache_now, cache_ttl)
            fresh == [i \in 1..Len(f.successful) |->
                        <<f.successful[i], Response(Answer(up, f.successful[i]))>>]
            results == Stage1Results(c.cached \o fresh)
            adjusted == adjust_stage2_for_partial(results)
        IN /\ can_proceed(budget_limit, current_spend, estimate_cost(models))
           /\ selected_models' = models
           /\ memory_cache' = st.cache
           /\ cache_stats' = [cache_stats EXCEPT
                                 !.hits = @ + Len(c.cached),
                                 !.misses = @ + Len(c.uncached),
                                 !.saves = @ + Len(f.successful)]
           /\ current_spend' = st.tracker.spend
           /\ cost_history' = st.tracker.history
           /\ model_usage' = st.tracker.usage
           /\ upstream_calls' = upstream_calls \o
                 [i \in 1..Len(f.batches) |-> UpstreamCall(RunNumber, 1, f.batches[i])]
           /\ rc_stage1' = adjusted
           /\ IF results = <<>>
              THEN /\ returns' = Append(returns,
                          Returned(run, ErrorResult(<<>>, "All models failed",
                                                    "no_responses", 0)))
                   /\ rc_pc' = "idle"
              ELSE IF adjusted = <<>>
              THEN /\ returns' = Append(returns,
                          Returned(run, ErrorResult(adjusted, "Insufficient responses",
                                     "insufficient_responses",
                                     st.tracker.spend - initial_spend)))
                   /\ rc_pc' = "idle"
              ELSE /\ returns' = returns
                   /\ rc_pc' = "stage2"
    /\ UNCHANGED <<run, initial_spend, rc_stage2, waited, cache_pc, cache_ttl,
                   cache_now, cache_ops, tr_pc, budget_limit, notCouncilVars>>

\* stage2_collect_rankings 193-210
Stage2 ==
    /\ rc_pc = "stage2"
    /\ \E up \in Stage2Upstreams :
        LET ok == Responding(COUNCIL_MODELS, up) IN
        /\ upstream_calls' = Append(upstream_calls,
                                    UpstreamCall(RunNumber, 2, COUNCIL_MODELS))
        /\ rc_stage2' = [i \in 1..Len(ok) |-> [model |-> ok[i]]]
    /\ rc_pc' = "stage3"
    /\ UNCHANGED <<run, initial_spend, selected_models, rc_stage1, returns, waited,
                   cacheVars, trackerVars, notCouncilVars>>

\* stage3_synthesize_final and run_full_council 530-554
Stage3 ==
    /\ rc_pc = "stage3"
    /\ \E up \in Stage3Upstreams :
        LET stage3 == [model |-> CHAIRMAN_MODEL,
                       response |-> IF Answer(up, CHAIRMAN_MODEL) = "none"
                                    THEN "Error: Unable to generate final synthesis."
                                    ELSE Answer(up, CHAIRMAN_MODEL)]
            metadata == [cost |-> Round4(current_spend - initial_spend),
                         cache_hit |-> FALSE,
                         models_used |-> Len(rc_stage1),
                         budget_remaining |-> get_remaining_budget(budget_limit,
                                                                   current_spend)]
            result == [stage1 |-> rc_stage1, stage2 |-> rc_stage2,
                       stage3 |-> stage3, metadata |-> metadata]
        IN /\ upstream_calls' = Append(upstream_calls,
                                       UpstreamCall(RunNumber, 3, <<CHAIRMAN_MODEL>>))
           /\ IF run.use_cache
              THEN /\ memory_cache' =
                        ResponseCache_set(memory_cache, CompleteKey(run.user_query),
                                          result, cache_now, cache_ttl)
                   /\ cache_stats' = [cache_stats EXCEPT !.saves = @ + 1]
              ELSE UNCHANGED <<memory_cache, cache_stats>>
           /\ returns' = Append(returns, Returned(run, result))
    /\ rc_pc' = "idle"
    /\ UNCHANGED <<run, initial_spend, selected_models, rc_stage1, rc_stage2,
                   waited, cache_pc, cache_ttl, cache_now, cache_ops, trackerVars,
                   notCouncilVars>>

\* between two runs the lifetime of a cache entry passes
LifetimePasses ==
    /\ rc_pc = "idle"
    /\ waited < MaxWaits
    /\ waited' = waited + 1
    /\ cache_now' = cache_now + cache_ttl
    /\ UNCHANGED <<rc_pc, run, initial_spend, selected_models, rc_stage1,
                   rc_stage2, upstream_calls, returns, cache_pc, cache_ttl,
                   memory_cache, cache_stats, cache_ops, trackerVars,
                   notCouncilVars>>

NextCouncil ==
    \/ ServeCached
    \/ BeginRun
    \/ BudgetExceeded
    \/ Stage1
    \/ Stage2
    \/ Stage3
    \/ LifetimePasses

SpecCouncil == InitCouncil /\ [][NextCouncil]_vars

\* the arguments of run number n
ArgsOfRun(n) == IF n <= Len(returns) THEN returns[n].args ELSE run

\* the upstream calls made by run number n
CallsOfRun(n) == {i \in 1..Len(upstream_calls) : upstream_calls[i].run = n}

\* run number n returned a result without an error tag
CompletedWithoutError(n) == "error" \notin DOMAIN returns[n].result.metadata

\* run number n went through the three stages and stored its result
StoredByRun(n) ==
    /\ CompletedWithoutError(n)
    /\ returns[n].args.use_cache
    /\ ~ returns[n].result.metadata.cache_hit

\* C16: after a run with use_cache = true has completed without error, a
\* later run with the same query and use_cache = true that starts before
\* the stored entry expires makes no upstream call, returns the stored
\* stage results, and its metadata has cache_hit = true and cost = 0.
C16_SecondRunServedFromCache ==
    \A i, j \in 1..Len(returns) :
        (/\ i < j
         /\ StoredByRun(i)
         /\ returns[j].args.user_query = returns[i].args.user_query
         /\ returns[j].args.use_cache
         /\ returns[j].at < returns[i].at + cache_ttl)
        => /\ CallsOfRun(j) = {}
           /\ returns[j].result.stage1 = returns[i].result.stage1
           /\ returns[j].result.stage2 = returns[i].result.stage2
           /\ returns[j].result.stage3 = returns[i].result.stage3
           /\ returns[j].result.metadata.cache_hit = TRUE
           /\ returns[j].result.metadata.cost = 0

\* a first run that called upstream in all three stages and had a cost,
\* and a second run of the same query served from the cache
C16_Witness ==
    /\ Len(returns) = 2
    /\ StoredByRun(1)
    /\ {upstream_calls[i].stage : i \in CallsOfRun(1)} = {1, 2, 3}
    /\ returns[1].result.metadata.cost > 0
    /\ returns[2].args = returns[1].args
    /\ returns[2].result.metadata.cache_hit
    /\ CallsOfRun(2) = {}

\* the estimate of the Stage 1 budget check of the run in progress
Stage1Estimate ==
    estimate_cost(SelectedModels(run, get_remaining_budget(budget_limit,
                                                           current_spend)))

\* the step returns the budget_exceeded result of the run in progress
ReturnsBudgetExceeded ==
    /\ Len(returns') = Len(returns) + 1
    /\ returns'[Len(returns')].args = run
    /\ returns'[Len(returns')].result.stage1 = <<>>
    /\ returns'[Len(returns')].result.stage2 = <<>>
    /\ returns'[Len(returns')].result.metadata.error = "budget_exceeded"

\* C18: when spend + estimate exceeds the ceiling at the Stage 1 budget
\* check, the run makes no upstream call, returns empty stage results
\* tagged budget_exceeded, stores nothing in the response cache or the
\* query cache, and leaves the accountant's spend, history and per-model
\* rollup unchanged; when spend + estimate equals the ceiling the run
\* proceeds with Stage 1: it looks every selected model up in the response
\* cache and does not return budget_exceeded.
C18_BudgetCheck ==
    [][/\ (rc_pc = "stage1" /\ current_spend + Stage1Estimate > budget_limit)
          => /\ ReturnsBudgetExceeded
             /\ rc_pc' = "idle"
             /\ upstream_calls' = upstream_calls
             /\ memory_cache' = memory_cache
             /\ current_spend' = current_spend
             /\ cost_history' = cost_history
             /\ model_usage' = model_usage
       /\ (rc_pc = "stage1" /\ current_spend + Stage1Estimate = budget_limit)
          => /\ cache_stats'.hits + cache_stats'.misses
                    = cache_stats.hits + cache_stats.misses + Len(selected_models')
             /\ (Len(returns') > Len(returns)
                    => returns'[Len(returns')].result.metadata.error
                           # "budget_exceeded")]_vars

\* with a ceiling equal to the estimate of the first run, the first run
\* went through and spent, and the second was refused at the budget check
C18_Witness ==
    /\ budget_limit = estimate_cost(MODEL_TIERS.budget)
    /\ Len(returns) = 2
    /\ StoredByRun(1)
    /\ current_spend > 0
    /\ cost_history # <<>>
    /\ "error" \in DOMAIN returns[2].result.metadata
    /\ returns[2].result.metadata.error = "budget_exceeded"
    /\ CallsOfRun(2) = {}

\* C19: a run whose remaining budget after Stage 1 is smaller than the
\* estimate of the Stage 2 call makes no Stage 2 or Stage 3 call: a run
\* that has made its Stage 2 call had the budget for it.
C19_NoStageBeyondBudget ==
    rc_pc = "stage3" =>
        get_remaining_budget(budget_limit, current_spend)
            >= estimate_cost(COUNCIL_MODELS)

\* C20: when a council configuration is supplied, the models queried in
\* Stage 1 are the models of the configuration's agents.
C20_ConfigDecidesModels ==
    \A i \in 1..Len(upstream_calls) :
        LET c == upstream_calls[i]
            args == ArgsOfRun(c.run)
        IN (c.stage = 1 /\ args.council_config.given)
           => Range(c.models) \subseteq Range(args.council_config.agents)

(***************************************************************************)
(* RateLimiter (backend/rate_limiter.py).  Time is in seconds and money in *)
(* cents.                                                                  *)
(***************************************************************************)
MaxLimiterCalls == 4
MaxLimiterClock == 122

\* self.max_websocket_connections = 3 (line 45)
max_websocket_connections == 3
\* window_seconds: int = 60 (line 25)
window_seconds == 60
\* hour_cutoff = time.time() - 3600 (line 113)
HourSeconds == 3600

\* hosts of the clients, the values of max_requests and max_cost_per_hour a
\* limiter is built with, the estimates of its callers, and the steps of
\* the clock
Hosts == {"10.0.0.1", "10.0.0.2"}
RequestCaps == {2, 10}
CostCeilings == {500}
EstimatedCosts == {0, 300}
ClockSteps == {61}

\* _get_client_id (52-73): the first 16 hex digits of the SHA-256 of the host
get_client_id(host) == <<"sha256", host>>

ClientIds == {get_client_id(h) : h \in Hosts}

\* the sum of the costs of a list of (timestamp, cost)
RECURSIVE SumCost(_)
SumCost(reqs) ==
    IF reqs = <<>> THEN 0 ELSE Head(reqs).cost + SumCost(Tail(reqs))

\* the entries of a list of (timestamp, cost) with ts > cutoff
After(reqs, cutoff) ==
    LET Younger(r) == r.ts > cutoff
    IN  SelectSeq(reqs, Younger)

\* _cleanup_old_requests (75-81)
cleanup_old_requests(reqs, t) == After(reqs, t - window_seconds)

\* check_rate_limit (100-132) on the list of one client
check_rate_limit(reqs, estimated_cost, t) ==
    LET cleaned       == cleanup_old_requests(reqs, t)
        request_count == Len(cleaned)
        hourly_cost   == SumCost(After(cleaned, t - HourSeconds))
    IN  IF request_count >= max_requests
        THEN [requests |-> cleaned, allowed |-> FALSE, reason |-> "rate_limit"]
        ELSE IF hourly_cost + estimated_cost > max_cost_per_hour
        THEN [requests |-> cleaned, allowed |-> FALSE, reason |-> "cost_limit"]
        ELSE [requests |-> Append(cleaned, [ts |-> t, cost |-> estimated_cost]),
              allowed |-> TRUE, reason |-> ""]

\* "current_connections > self.max_websocket_connections"
WebsocketLimitPassed(current_connections) ==
    current_connections > max_websocket_connections

\* current_connections >= self.max_websocket_connections (line 147)
WebsocketLimitReached(current_connections) ==
    current_connections >= max_websocket_connections

\* check_websocket_limit (144-159) on the counter of one client
check_websocket_limit(current_connections) ==
    IF WebsocketLimitReached(current_connections)
    THEN [connections |-> current_connections, allowed |-> FALSE]
    ELSE [connections |-> current_connections + 1, allowed |-> TRUE]

\* release_websocket (168-169) on the counter of one client
release_websocket(current_connections) ==
    IF current_connections - 1 > 0 THEN current_connections - 1 ELSE 0

LimiterCall(op, client, allowed, reason) ==
    [op |-> op, client |-> client, allowed |-> allowed, reason |-> reason]

\* RateLimiter.__init__ (36-45)
InitLimiter ==
    /\ lim_pc = "on"
    /\ max_requests \in RequestCaps
    /\ max_cost_per_hour \in CostCeilings
    /\ requests = [c \in ClientIds |-> <<>>]
    /\ websocket_connections = [c \in ClientIds |-> 0]
    /\ lim_now = 0
    /\ lim_calls = 0
    /\ lim_last = LimiterCall("", NoValue, FALSE, "")
    /\ lim_accepted = <<>>
    /\ held = [c \in ClientIds |-> 0]
    /\ stray = {}
    /\ OnlyLimiter

\* one call of check_rate_limit (83-132)
CheckRateLimit ==
    /\ lim_pc = "on"
    /\ lim_calls < MaxLimiterCalls
    /\ \E host \in Hosts, estimated_cost \in EstimatedCosts :
        LET client_id == get_client_id(host)
            r == check_rate_limit(requests[client_id], estimated_cost, lim_now)
        IN  /\ requests' = [requests EXCEPT ![client_id] = r.requests]
            /\ lim_last' = LimiterCall("check_rate_limit", client_id,
                                       r.allowed, r.reason)
            /\ lim_accepted' =
                   IF r.allowed
                   THEN Append(lim_accepted, [client |-> client_id, ts |-> lim_now,
                                              cost |-> estimated_cost])
                   ELSE lim_accepted
    /\ lim_calls' = lim_calls + 1
    /\ UNCHANGED <<lim_pc, max_requests, max_cost_per_hour,
                   websocket_connections, lim_now, held, stray>>
    /\ UNCHANGED notLimiterVars

\* one call of check_websocket_limit (134-159)
CheckWebsocketLimit ==
    /\ lim_pc = "on"
    /\ lim_calls < MaxLimiterCalls
    /\ \E host \in Hosts :
        LET client_id == get_client_id(host)
            r == check_websocket_limit(websocket_connections[client_id])
        IN  /\ websocket_connections' =
                   [websocket_connections EXCEPT ![client_id] = r.connections]
            /\ lim_last' = LimiterCall("check_websocket_limit", client_id,
                                       r.allowed, "")
            /\ held' = IF r.allowed
                       THEN [held EXCEPT ![client_id] = @ + 1]
                       ELSE held
    /\ lim_calls' = lim_calls + 1
    /\ UNCHANGED <<lim_pc, max_requests, max_cost_per_hour, requests, lim_now,
                   lim_accepted, stray>>
    /\ UNCHANGED notLimiterVars

\* one call of release_websocket (161-173): for a connection that was
\* accepted and is still held, or (owed = FALSE) for one that was refused or
\* has been released before
ReleaseWebsocket ==
    /\ lim_pc = "on"
    /\ lim_calls < MaxLimiterCalls
    /\ \E host \in Hosts, owed \in BOOLEAN :
        LET client_id == get_client_id(host)
        IN  /\ owed => held[client_id] > 0
            /\ websocket_connections' =
                   [websocket_connections EXCEPT
                        ![client_id] = release_websocket(@)]
            /\ lim_last' = LimiterCall("release_websocket", client_id, TRUE, "")
            /\ held' = IF owed THEN [held EXCEPT ![client_id] = @ - 1] ELSE held
            /\ stray' = IF owed THEN stray ELSE stray \cup {client_id}
    /\ lim_calls' = lim_calls + 1
    /\ UNCHANGED <<lim_pc, max_requests, max_cost_per_hour, requests, lim_now,
                   lim_accepted>>
    /\ UNCHANGED notLimiterVars

\* time passes between two calls
LimiterTick ==
    /\ lim_pc = "on"
    /\ \E d \in ClockSteps :
        /\ lim_now + d <= MaxLimiterClock
        /\ lim_now' = lim_now + d
    /\ UNCHANGED <<lim_pc, max_requests, max_cost_per_hour, requests,
                   websocket_connections, lim_calls, lim_last, lim_accepted,
                   held, stray>>
    /\ UNCHANGED notLimiterVars

NextLimiter ==
    \/ CheckRateLimit
    \/ CheckWebsocketLimit
    \/ ReleaseWebsocket
    \/ LimiterTick

SpecLimiter == InitLimiter /\ [][NextLimiter]_vars

\* this step is a call of check_websocket_limit by the client
IsWebsocketCheck(client_id) ==
    /\ lim_calls' = lim_calls + 1
    /\ lim_last'.op = "check_websocket_limit"
    /\ lim_last'.client = client_id

\* C23: for a client whose releases were each for an accepted connection,
\* the connections accepted and not yet released are what the counter says
\* and never more than 3; a connection request is refused exactly when 3
\* are held, and a refused request leaves the counter as it was.
C23_ConnectionCap ==
    /\ [](\A c \in ClientIds :
            c \notin stray => /\ held[c] <= max_websocket_connections
                              /\ websocket_connections[c] = held[c])
    /\ [][\A c \in ClientIds :
            (IsWebsocketCheck(c) /\ c \notin stray)
            => /\ ~lim_last'.allowed <=> held[c] = max_websocket_connections
               /\ ~lim_last'.allowed =>
                      /\ websocket_connections'[c] = websocket_connections[c]
                      /\ held'[c] = held[c]]_vars

\* a fourth connection of a client was refused while three were held, after
\* one of its earlier connections had been released and replaced
C23_Witness ==
    \E c \in ClientIds :
        /\ c \notin stray
        /\ lim_last = LimiterCall("check_websocket_limit", c, FALSE, "")
        /\ held[c] = max_websocket_connections
        /\ websocket_connections[c] = max_websocket_connections

\* the requests of a client that were allowed in the 3600 seconds up to now
AcceptedInLastHour(client_id) ==
    LET Mine(r) == r.client = client_id
    IN  After(SelectSeq(lim_accepted, Mine), lim_now - HourSeconds)

\* C24: for every client, the estimated costs of the requests that
\* check_rate_limit allowed during the last 3600 seconds add up to at most
\* the hourly ceiling.
C24_HourlyCostCeiling ==
    \A c \in ClientIds : SumCost(AcceptedInLastHour(c)) <= max_cost_per_hour

(***************************************************************************)
(* Input screening (backend/security.py) and the /ws/execute endpoint      *)
(* (backend/main.py 885-916) with several sessions at once.  A query is    *)
(* the list of its whitespace-separated words.                             *)
(***************************************************************************)
MaxSessions == 4
MaxExecutes == 1

\* max_length: int = 10000 (security.py line 35)
MaxInputLength == 10000

\* str.lower() on the words of the model
Lower(word) ==
    CASE word = "Ignore"   -> "ignore"
      [] word = "PREVIOUS" -> "previous"
      [] word = "[INST]"   -> "[inst]"
      [] OTHER             -> word

\* len() of a word; Filler stands for a word of 10001 letters
Filler == "x..."
WordLength(word) ==
    CASE word = Filler -> MaxInputLength + 1
      [] word \in {"Ignore", "ignore"} -> 6
      [] word \in {"PREVIOUS", "previous"} -> 8
      [] word = "instructions" -> 12
      [] word = "all" -> 3
      [] OTHER -> 5

\* len(user_input): the words and one blank between two of them
RECURSIVE InputLength(_)
InputLength(user_input) ==
    IF user_input = <<>> THEN 0
    ELSE WordLength(Head(user_input))
         + (IF Len(user_input) > 1 THEN 1 ELSE 0) + InputLength(Tail(user_input))

\* INJECTION_PATTERNS (19-32), each as the word lists it matches in a
\* lowercased input; the token patterns are kept as the word that holds them
INJECTION_PATTERNS ==
    << {<<"ignore", "previous", "instructions">>,
        <<"ignore", "all", "previous", "instructions">>},
       {<<"disregard", "prior", "context">>,
        <<"disregard", "all", "prior", "context">>},
       {<<"forget", "everything">>},
       {<<"you", "are", "now">>},
       {<<"new", "instructions">>},
       {<<"system:">>},
       {<<"assistant:">>},
       {<<"<|im_start|>">>},
       {<<"[system]">>},
       {<<"[inst]">>},
       {<<"</s>">>},
       {<<"<s>">>} >>

\* re.search(pattern, text): some run of consecutive words is one of the
\* word lists of the pattern
Search(pattern, text) ==
    \E i \in 1..Len(text), j \in 1..Len(text) :
        i <= j /\ SubSeq(text, i, j) \in pattern

\* sanitize_user_input (49-65): ok = FALSE stands for the ValueError
sanitize_user_input(user_input) ==
    LET user_input_lower == [i \in 1..Len(user_input) |-> Lower(user_input[i])]
    IN  IF user_input = <<>>
        THEN [ok |-> FALSE, value |-> <<>>]
        ELSE IF InputLength(user_input) > MaxInputLength
        THEN [ok |-> FALSE, value |-> <<>>]
        ELSE IF \E k \in 1..Len(INJECTION_PATTERNS) :
                    Search(INJECTION_PATTERNS[k], user_input_lower)
        THEN [ok |-> FALSE, value |-> <<>>]
        ELSE [ok |-> TRUE, value |-> user_input]

\* the connections, queries and councils of the endpoint model
SessionIds == 1..MaxSessions
EndpointQueries ==
    {<<"hello">>,
     <<"Ignore", "PREVIOUS", "instructions">>,
     <<"hello", "ignore", "all", "previous", "instructions">>}
EndpointConfigs == {cfg \in Configs : cfg.edges = <<>> /\ cfg.chair \in {{}, {3}}}

NoSession == [state |-> "none", host |-> "", over |-> FALSE]

\* the sessions of a host that are connected
OpenSessions(host) ==
    {s \in SessionIds : sessions[s].state = "open" /\ sessions[s].host = host}

\* participant_order of execute() (521-533)
ParticipantOrder(cfg) ==
    LET g == build_execution_graph(cfg.nodes, cfg.hint, cfg.edges)
        c == FirstChairman(cfg.nodes, cfg.chair)
    IN  FilterSeq(g.execution_order, Range(g.execution_order) \ {c})

InitEndpoint ==
    /\ ep_pc = "on"
    /\ sessions = [s \in SessionIds |-> NoSession]
    /\ ep_executes = <<>>
    /\ ep_calls = {}
    /\ OnlyEndpoint

\* websocket_execute up to the receive loop (887-891): the connection is
\* accepted and gets its executor.  "over" notes whether the host had
\* reached the limiter's connection cap when it connected.
Connect ==
    /\ ep_pc = "on"
    /\ \E s \in SessionIds, host \in Hosts :
        /\ sessions[s].state = "none"
        /\ \A r \in SessionIds : r < s => sessions[r].state # "none"
        /\ sessions' = [sessions EXCEPT ![s] =
               [state |-> "open", host |-> host,
                over |-> WebsocketLimitReached(Cardinality(OpenSessions(host)))]]
    /\ UNCHANGED <<ep_pc, ep_executes, ep_calls>>
    /\ UNCHANGED notEndpointVars

\* an execute message on a connected session (895-907) and the Stage 1
\* queries of executor.execute (553-590), one for every participant
Execute ==
    /\ ep_pc = "on"
    /\ Len(ep_executes) < MaxExecutes
    /\ \E s \in SessionIds, query \in EndpointQueries, cfg \in EndpointConfigs :
        /\ sessions[s].state = "open"
        /\ ep_executes' = Append(ep_executes,
               [session |-> s, query |-> query, config |-> cfg])
        /\ ep_calls' = ep_calls \cup
               {[session |-> s, execute |-> Len(ep_executes) + 1, node |-> n] :
                    n \in Range(ParticipantOrder(cfg))}
    /\ UNCHANGED <<ep_pc, sessions>>
    /\ UNCHANGED notEndpointVars

\* the client of a session disconnects (909-910)
Close ==
    /\ ep_pc = "on"
    /\ \E s \in SessionIds :
        /\ sessions[s].state = "open"
        /\ sessions' = [sessions EXCEPT ![s].state = "closed"]
    /\ UNCHANGED <<ep_pc, ep_executes, ep_calls>>
    /\ UNCHANGED notEndpointVars

NextEndpoint ==
    \/ Connect
    \/ Execute
    \/ Close

SpecEndpoint == InitEndpoint /\ [][NextEndpoint]_vars

\* C21: a session whose client already held the maximum number of
\* connections when it connected never has an upstream call made for one
\* of its execute messages.
C21_OverLimitNeverDispatches ==
    \A c \in ep_calls : ~sessions[c.session].over

\* C22: no upstream call is dispatched for an execute message whose query
\* the input screening refuses, such as one holding "ignore previous
\* instructions" in any letter case.
C22_InjectionNeverDispatched ==
    \A c \in ep_calls : sanitize_user_input(ep_executes[c.execute].query).ok

(***************************************************************************)
(* Further properties of the streaming session (Spec).                     *)
(***************************************************************************)
\* the nodes asked in a stage, in the order of the calls
RECURSIVE NodesAsked(_, _)
NodesAsked(cs, stage) ==
    IF cs = <<>> THEN <<>>
    ELSE (IF Head(cs).stage = stage THEN <<Head(cs).node>> ELSE <<>>)
         \o NodesAsked(Tail(cs), stage)

\* the frames of a stage that name the node
RECURSIVE FramesOf(_, _, _)
FramesOf(fs, node, stage) ==
    IF fs = <<>> THEN <<>>
    ELSE (IF Head(fs).node = node /\ Head(fs).stage = stage
          THEN <<Head(fs)>> ELSE <<>>)
         \o FramesOf(Tail(fs), node, stage)

\* the participants whose turn in the Stage 1 loop has passed
Stage1Done ==
    CASE pc = "stage1" -> SubSeq(participant_order, 1, idx - 1)
      [] pc \in {"stage2", "finish", "done", "failed"} -> participant_order
      [] OTHER -> <<>>

\* C25: every frame sent on a session carries the session's
\* conversationId, the error frame of a failed message included.
C25_EveryFrameHasConversationId ==
    \A i \in FrameIdx : frames[i].conv

C27_ChairmanFailureReported ==
    (/\ pc \in {"finish", "done", "failed"}
     /\ chairman_id # NoNode
     /\ \A i \in FrameIdx : frames[i].type # "final_answer")
    => \E i \in FrameIdx :
           frames[i].type = "error" /\ frames[i].node = chairman_id

C29_Stage2AsksResponders ==
    Range(NodesAsked(calls, 2)) \subseteq Range(stage1_responses)

(***************************************************************************)
(* A further property of execute_with_fallback (SpecFallback).             *)
(***************************************************************************)
\* the fallback models that are not primaries
FallbacksOutsidePrimaries == Range(FALLBACK_MODELS) \ Range(primary_models)

\* C30: when execute_with_fallback has dispatched to fallbacks and returns
\* fewer than Q responses, every fallback model outside the primary set
\* has been tried.
C30_FallbacksExhausted ==
    (/\ fb_pc = "done"
     /\ InvokedFallbacks # {}
     /\ Len(successful_responses) < min_responses_required)
    => FallbacksOutsidePrimaries
           \subseteq {fb_calls[i].model : i \in InvokedFallbacks}

(***************************************************************************)
(* Further properties of the graph compiler (SpecGraph).                   *)
(***************************************************************************)
\* the order is ascending in the speaking-order hint
AscendingHint(order, hint) ==
    \A i \in 1..Len(order), j \in 1..Len(order) :
        i < j => hint[order[i]] <= hint[order[j]]

\* the nodes of order[i..] that are ready when order[i] is taken: every
\* source of a known edge into them stands before position i
ReadyAt(order, i, nodes, edges) ==
    {n \in {order[j] : j \in i..Len(order)} :
        \A e \in Range(KnownEdges(nodes, edges)) :
            e[2] = n => \E k \in 1..(i - 1) : order[k] = e[1]}

\* C32: in an acyclic council every node of the execution order has, among
\* the nodes ready when it is taken, the smallest speaking-order hint and,
\* among those of equal hint, the smallest id.
C32_TieBreakByHintThenId ==
    (gout.built /\ IsAcyclic(gin.nodes, gin.edges)) =>
        LET order == gout.graph.execution_order
        IN  \A i \in 1..Len(order) :
              \A n \in ReadyAt(order, i, gin.nodes, gin.edges) :
                 \/ gin.hint[order[i]] < gin.hint[n]
                 \/ gin.hint[order[i]] = gin.hint[n] /\ order[i] <= n

\* C33: for a council whose edges hold a cycle, a self-loop included, the
\* execution order has every node exactly once and is ascending in the
\* speaking-order hint.
C33_CycleFallsBackToHintOrder ==
    (gout.built /\ ~IsAcyclic(gin.nodes, gin.edges)) =>
        /\ IsPermutationOf(gout.graph.execution_order, gin.nodes)
        /\ AscendingHint(gout.graph.execution_order, gin.hint)

\* a council with a self-loop whose nodes are listed against their hints
C33_Witness ==
    /\ gout.built
    /\ <<1, 1>> \in Range(gin.edges)
    /\ 1 \in Range(gin.nodes)
    /\ Len(gin.nodes) = 3
    /\ ~AscendingHint(gin.nodes, gin.hint)
    /\ gout.graph.execution_order # gin.nodes

(***************************************************************************)
(* SpecParsers: CouncilExecutor.parse_ranking and parse_ranking_from_text  *)
(* applied to the same reply.                                              *)
(***************************************************************************)
MaxReplyLen == 3

\* what a reply is made of: prose, the header, numbered items, a bulleted
\* item and a plain mention
ReplyTokens ==
    {Prose, Final, Num(1, "A"), Num(2, "B"), Num(3, "C"), Bullet("B"), Ref("A")}

Replies == SeqsUpTo(ReplyTokens, MaxReplyLen)

InitParsers ==
    /\ pin \in Replies
    /\ pout = [done |-> FALSE]
    /\ OnlyParsers

\* the reply goes through the parser of the streaming executor (main.py
\* 718) and through the parser of the council pipeline (council.py 203)
ParseReply ==
    /\ ~pout.done
    /\ pout' = [done |-> TRUE,
                streaming |-> parse_ranking(pin),
                layered |-> parse_ranking_from_text(pin)]
    /\ UNCHANGED <<pin, notParsersVars>>

NextParsers == ParseReply

SpecParsers == InitParsers /\ [][NextParsers]_vars

\* C34: for every reply the list of the streaming executor's parser equals
\* the list of the layered parser.
C34_ParsersAgree ==
    pout.done => pout.streaming = pout.layered

(***************************************************************************)
(* A further property of the frames of an execution (Spec).                *)
(***************************************************************************)
\* frame i is node_state(active) and no later frame of its stage settles
\* the node with node_state(complete) or node_state(error)
LeftActive(i) ==
    /\ frames[i].type = "node_state"
    /\ frames[i].state = "active"
    /\ ~\E j \in FrameIdx :
          /\ j > i
          /\ frames[j].type = "node_state"
          /\ frames[j].node = frames[i].node
          /\ frames[j].stage = frames[i].stage
          /\ frames[j].state \in {"complete", "error"}

\* C36: when the complete frame of an execution has been sent, no node is
\* left active in any stage.
C36_NoNodeLeftActive ==
    (\E i \in FrameIdx : frames[i].type = "complete")
    => \A i \in FrameIdx : ~LeftActive(i)

(***************************************************************************)
(* A further property of the cost accountant (SpecTracker).                *)
(***************************************************************************)
\* the sum of the call counts and of the costs of the per-model rollup
RECURSIVE RollupCount(_, _)
RollupCount(usage, models) ==
    IF models = {} THEN 0
    ELSE LET m == CHOOSE x \in models : TRUE
         IN  usage[m].count + RollupCount(usage, models \ {m})

RECURSIVE RollupCost(_, _)
RollupCost(usage, models) ==
    IF models = {} THEN 0
    ELSE LET m == CHOOSE x \in models : TRUE
         IN  usage[m].total_cost + RollupCost(usage, models \ {m})

\* this step is a call of reset on a tracker that has recorded something
IsReset == Len(cost_history') < Len(cost_history)

\* C39: the history has as many entries as the per-model call counts add up
\* to, and the running spend is the sum of the per-model costs; reset sets
\* the spend to zero and empties history and rollup, and leaves the budget
\* ceiling as it was.
C39_HistoryMatchesRollup ==
    /\ [](/\ Len(cost_history) = RollupCount(model_usage, DOMAIN model_usage)
          /\ current_spend = RollupCost(model_usage, DOMAIN model_usage))
    /\ [][IsReset => /\ current_spend' = 0
                     /\ cost_history' = <<>>
                     /\ model_usage' = <<>>
                     /\ budget_limit' = budget_limit]_vars

\* three records over two models, one of them used twice, after which the
\* spend is not zero
C39_Witness ==
    /\ Len(cost_history) = 3
    /\ Cardinality(DOMAIN model_usage) = 2
    /\ \E m \in DOMAIN model_usage : model_usage[m].count = 2
    /\ current_spend > 0

(***************************************************************************)
(* SpecRedisCache: ResponseCache with use_redis = True (backend/cache.py   *)
(* 69-147).  The server holds strings; it drops a key when its lifetime is *)
(* over, and other clients of the server may write to it.                  *)
(***************************************************************************)
MaxRedisOps == 3

\* json.dumps(response), and a stored string that is no JSON document
Dumped(response) == [json |-> TRUE, body |-> response]
Undecodable == [json |-> FALSE, body |-> "r1"]

\* json.loads(cached): ok = FALSE stands for the JSONDecodeError
json_loads(cached) ==
    IF cached.json THEN [ok |-> TRUE, value |-> cached.body]
    ELSE [ok |-> FALSE, value |-> NoValue]

\* ResponseCache.get with use_redis (80-106) on the stats st; up = FALSE
\* stands for a redis_client.get that raises
RedisGet(store, st, key, up) ==
    IF ~up
    THEN [stats |-> [st EXCEPT !.misses = @ + 1], result |-> NoValue]
    ELSE IF key \in DOMAIN store
    THEN LET counted == [st EXCEPT !.hits = @ + 1]
             loaded  == json_loads(store[key])
         IN  IF loaded.ok
             THEN [stats |-> counted, result |-> loaded.value]
             ELSE [stats |-> [counted EXCEPT !.misses = @ + 1],
                   result |-> NoValue]
    ELSE [stats |-> [st EXCEPT !.misses = @ + 1], result |-> NoValue]

\* ResponseCache.set with use_redis (125-147); up = FALSE stands for a setex
\* that raises
RedisSet(store, st, key, response, up) ==
    IF up
    THEN [store |-> [k \in DOMAIN store \cup {key} |->
                        IF k = key THEN Dumped(response) ELSE store[k]],
          stats |-> [st EXCEPT !.saves = @ + 1], result |-> TRUE]
    ELSE [store |-> store, stats |-> st, result |-> FALSE]

RedisOp(op, key, result) == [op |-> op, key |-> key, result |-> result]

InitRedis ==
    /\ rd_pc = "on"
    /\ redis_store = <<>>
    /\ rd_stats = [hits |-> 0, misses |-> 0, saves |-> 0]
    /\ rd_ops = <<>>
    /\ OnlyRedis

RedisCacheGet ==
    /\ rd_pc = "on"
    /\ Len(rd_ops) < MaxRedisOps
    /\ \E key \in CacheKeys, up \in BOOLEAN :
        LET r == RedisGet(redis_store, rd_stats, key, up)
        IN  /\ rd_stats' = r.stats
            /\ rd_ops' = Append(rd_ops, RedisOp("get", key, r.result))
    /\ UNCHANGED <<rd_pc, redis_store, notRedisVars>>

RedisCacheSet ==
    /\ rd_pc = "on"
    /\ Len(rd_ops) < MaxRedisOps
    /\ \E key \in CacheKeys, response \in CacheResponses, up \in BOOLEAN :
        LET r == RedisSet(redis_store, rd_stats, key, response, up)
        IN  /\ redis_store' = r.store
            /\ rd_stats' = r.stats
            /\ rd_ops' = Append(rd_ops, RedisOp("set", key, r.result))
    /\ UNCHANGED <<rd_pc, notRedisVars>>

\* the lifetime of a key given to setex is over
RedisExpire ==
    /\ rd_pc = "on"
    /\ \E key \in DOMAIN redis_store :
        redis_store' = Without(redis_store, key)
    /\ UNCHANGED <<rd_pc, rd_stats, rd_ops, notRedisVars>>

\* another client of the server stores a string that is no JSON document
ForeignWrite ==
    /\ rd_pc = "on"
    /\ \E key \in CacheKeys :
        /\ IF key \in DOMAIN redis_store
           THEN redis_store[key] # Undecodable ELSE TRUE
        /\ redis_store' = [k \in DOMAIN redis_store \cup {key} |->
                              IF k = key THEN Undecodable ELSE redis_store[k]]
    /\ UNCHANGED <<rd_pc, rd_stats, rd_ops, notRedisVars>>

NextRedis ==
    \/ RedisCacheGet
    \/ RedisCacheSet
    \/ RedisExpire
    \/ ForeignWrite

SpecRedisCache == InitRedis /\ [][NextRedis]_vars

\* the calls of one kind so far
RedisCalls(op) == {i \in 1..Len(rd_ops) : rd_ops[i].op = op}

\* C35: hits + misses is the number of get calls, hits is the number of
\* get calls that returned a value, and saves is the number of set calls
\* that returned true.
C35_StatsCountCalls ==
    /\ rd_stats.hits + rd_stats.misses = Cardinality(RedisCalls("get"))
    /\ rd_stats.hits =
          Cardinality({i \in RedisCalls("get") : rd_ops[i].result # NoValue})
    /\ rd_stats.saves =
          Cardinality({i \in RedisCalls("set") : rd_ops[i].result})

(***************************************************************************)
(* Further properties of SpecCouncil                                       *)
(***************************************************************************)

\* the models of the primary call a Stage 1 step makes
PrimariesAsked == upstream_calls'[Len(upstream_calls) + 1].models

\* every primary of the step answered, and with a body that fails
\* validate_response: the step stored each of these bodies under the key of
\* its model
AllPrimariesInvalid ==
    \A m \in Range(PrimariesAsked) :
        LET key == get_cache_key(m, run.user_query)
        IN IF key \in DOMAIN memory_cache'
           THEN ~ validate_response(memory_cache'[key].data)
           ELSE FALSE

\* C31: a primary response whose body fails validation does not count
\* toward the quorum: when every primary of a Stage 1 call returns a
\* validation-failing body and fallback models are unused, a second call
\* goes to fallback models, and only responses that pass validation are
\* labeled for Stage 2.
C31_InvalidBodiesDoNotCount ==
    [][(rc_pc = "stage1" /\ Len(upstream_calls') > Len(upstream_calls))
        => /\ (AllPrimariesInvalid
                   /\ AvailableFallbacks(PrimariesAsked, <<>>) # <<>>)
                => /\ Len(upstream_calls') = Len(upstream_calls) + 2
                   /\ Range(upstream_calls'[Len(upstream_calls')].models)
                         \subseteq Range(FALLBACK_MODELS)
           /\ \A i \in 1..Len(rc_stage1') : rc_stage1'[i].response = "ok"]_vars

\* the results the query cache holds: the entries under the keys of
\* ("council:complete", query)
StoredResults ==
    {memory_cache[CompleteKey(q)].data :
        q \in {x \in CouncilQueries : CompleteKey(x) \in DOMAIN memory_cache}}

\* the response of stage3_synthesize_final when the chairman gave no answer
ChairmanFailure == "Error: Unable to generate final synthesis."

\* C37: the query cache never holds a result that reports a failure:
\* neither a result tagged with an error nor a result whose Stage 3 entry
\* is the chairman-failure placeholder.
C37_NoFailureStored ==
    \A result \in StoredResults :
        /\ "error" \notin DOMAIN result.metadata
        /\ result.stage3.response # ChairmanFailure

\* the step is a run_full_council call served from the query cache
ServedFromCache ==
    /\ rc_pc = "idle"
    /\ Len(returns') = Len(returns) + 1
    /\ "cache_hit" \in DOMAIN returns'[Len(returns')].result.metadata
    /\ returns'[Len(returns')].result.metadata.cache_hit

\* C40: serving a query-cache hit does not change the stored entry: after
\* run_full_council returns a cached result, the value the response cache
\* holds for that query equals the value stored by the last set.
C40_HitLeavesEntryUnchanged ==
    [][ServedFromCache
        => LET key == CompleteKey(returns'[Len(returns')].args.user_query)
           IN memory_cache'[key] = memory_cache[key]]_vars

(***************************************************************************)
(* SpecPair: two run_full_council coroutines on one event loop, sharing    *)
(* the module-level cache, query_cache and cost_tracker (council.py 14-19).*)
(* A coroutine runs without interruption from one await of an upstream     *)
(* call to the next; the awaits of the in-process cache do not suspend.    *)
(***************************************************************************)
Tasks == {"a", "b"}

\* the (user_query, use_cache) arguments of the two calls
TaskArgs == {[user_query |-> q, use_cache |-> TRUE] : q \in CouncilQueries}

\* a coroutine that has not been called
NotStarted ==
    [pc |-> "idle", args |-> NoValue, initial_spend |-> 0, cached |-> <<>>,
     uncached |-> <<>>, stage1 |-> <<>>, stage2 |-> <<>>, recorded |-> 0,
     result |-> NoValue]

\* run_full_council 501-515 on the pairs of stage1_collect_responses, with
\* the accountant's spend at that moment
AfterStage1(task, pairs, spend) ==
    LET results == Stage1Results(pairs)
        adjusted == adjust_stage2_for_partial(results)
    IN IF results = <<>>
       THEN [task EXCEPT !.pc = "done",
                         !.result = ErrorResult(<<>>, "All models failed",
                                                "no_responses", 0)]
       ELSE IF adjusted = <<>>
       THEN [task EXCEPT !.pc = "done",
                         !.result = ErrorResult(adjusted, "Insufficient responses",
                                                "insufficient_responses",
                                                spend - task.initial_spend)]
       ELSE [task EXCEPT !.pc = "stage2", !.stage1 = adjusted]

InitPair ==
    /\ tasks = [t \in Tasks |-> NotStarted]
    /\ cache_pc = "shared"
    /\ cache_ttl = DEFAULT_CACHE_TTL
    /\ cache_now = 0
    /\ memory_cache = <<>>
    /\ cache_stats = [hits |-> 0, misses |-> 0, saves |-> 0]
    /\ cache_ops = <<>>
    /\ tr_pc = "shared"
    /\ budget_limit \in CouncilBudgets
    /\ current_spend = 0
    /\ cost_history = <<>>
    /\ model_usage = <<>>
    /\ OnlyPair

\* run_full_council 476-489: the call is served from the query cache
TaskServed(t) ==
    /\ tasks[t].pc = "idle"
    /\ \E args \in TaskArgs :
        LET g == ResponseCache_get(memory_cache, CompleteKey(args.user_query),
                                   cache_now)
            md == CacheHitMetadata(g.result.metadata)
            served == [g.result EXCEPT !.metadata = md]
        IN /\ g.hit
           /\ memory_cache' = [g.cache EXCEPT
                                  ![CompleteKey(args.user_query)].data = served]
           /\ cache_stats' = [cache_stats EXCEPT !.hits = @ + 1]
           /\ tasks' = [tasks EXCEPT ![t] =
                          [@ EXCEPT !.pc = "done", !.args = args,
                                    !.result = served]]
    /\ UNCHANGED <<cache_pc, cache_ttl, cache_now, cache_ops, trackerVars,
                   notPairVars>>

\* run_full_council 476-492 and stage1_collect_responses 39-75, up to the
\* await of execute_with_fallback; with every selected model in the cache
\* there is no such await and the coroutine goes on to 501-515
TaskStart(t) ==
    /\ tasks[t].pc = "idle"
    /\ \E args \in TaskArgs :
        LET g == ResponseCache_get(memory_cache, CompleteKey(args.user_query),
                                   cache_now)
            models == SelectedModels(args, get_remaining_budget(budget_limit,
                                                                current_spend))
            c == CachedResponses(g.cache, models, args.user_query, cache_now)
            begun == [tasks[t] EXCEPT !.args = args,
                                      !.initial_spend = current_spend]
        IN /\ ~ g.hit
           /\ IF ~ can_proceed(budget_limit, current_spend, estimate_cost(models))
              THEN /\ tasks' = [tasks EXCEPT ![t] =
                          [begun EXCEPT !.pc = "done",
                                        !.result = ErrorResult(<<>>,
                                            "Budget limit exceeded",
                                            "budget_exceeded", 0)]]
                   /\ memory_cache' = g.cache
                   /\ cache_stats' = [cache_stats EXCEPT !.misses = @ + 1]
              ELSE /\ tasks' = [tasks EXCEPT ![t] =
                          IF c.uncached = <<>>
                          THEN AfterStage1(begun, c.cached, current_spend)
                          ELSE [begun EXCEPT !.pc = "stage1",
                                             !.cached = c.cached,
                                             !.uncached = c.uncached]]
                   /\ memory_cache' = c.cache
                   /\ cache_stats' = [cache_stats EXCEPT
                                         !.hits = @ + Len(c.cached),
                                         !.misses = @ + 1 + Len(c.uncached)]
    /\ UNCHANGED <<cache_pc, cache_ttl, cache_now, cache_ops, trackerVars,
                   notPairVars>>

\* execute_with_fallback has returned: stage1_collect_responses 77-130 and
\* run_full_council 501-515
TaskStage1(t) ==
    /\ tasks[t].pc = "stage1"
    /\ \E up \in Upstreams :
        LET task == tasks[t]
            f == FallbackRun(task.uncached, up)
            st == StoreFresh(memory_cache, Tracker, f.successful, up,
                             task.args.user_query, cache_now, cache_ttl)
            fresh == [i \in 1..Len(f.successful) |->
                        <<f.successful[i], Response(Answer(up, f.successful[i]))>>]
            tracked == [task EXCEPT
                          !.recorded = @ + (st.tracker.spend - current_spend)]
        IN /\ memory_cache' = st.cache
           /\ cache_stats' = [cache_stats EXCEPT !.saves = @ + Len(f.successful)]
           /\ current_spend' = st.tracker.spend
           /\ cost_history' = st.tracker.history
           /\ model_usage' = st.tracker.usage
           /\ tasks' = [tasks EXCEPT ![t] =
                          AfterStage1(tracked, task.cached \o fresh,
                                      st.tracker.spend)]
    /\ UNCHANGED <<cache_pc, cache_ttl, cache_now, cache_ops, tr_pc,
                   budget_limit, notPairVars>>

\* stage2_collect_rankings 193-210 has its answers
TaskStage2(t) ==
    /\ tasks[t].pc = "stage2"
    /\ \E up \in Stage2Upstreams :
        LET ok == Responding(COUNCIL_MODELS, up) IN
        tasks' = [tasks EXCEPT ![t] =
                    [@ EXCEPT !.pc = "stage3",
                              !.stage2 = [i \in 1..Len(ok) |-> [model |-> ok[i]]]]]
    /\ UNCHANGED <<cacheVars, trackerVars, notPairVars>>

\* the chairman has answered: stage3_synthesize_final 259-272 and
\* run_full_council 530-554
TaskStage3(t) ==
    /\ tasks[t].pc = "stage3"
    /\ \E up \in Stage3Upstreams :
        LET task == tasks[t]
            stage3 == [model |-> CHAIRMAN_MODEL,
                       response |-> IF Answer(up, CHAIRMAN_MODEL) = "none"
                                    THEN "Error: Unable to generate final synthesis."
                                    ELSE Answer(up, CHAIRMAN_MODEL)]
            metadata == [cost |-> Round4(current_spend - task.initial_spend),
                         cache_hit |-> FALSE,
                         models_used |-> Len(task.stage1),
                         budget_remaining |-> get_remaining_budget(budget_limit,
                                                                   current_spend)]
            result == [stage1 |-> task.stage1, stage2 |-> task.stage2,
                       stage3 |-> stage3, metadata |-> metadata]
        IN /\ IF task.args.use_cache
              THEN /\ memory_cache' =
                        ResponseCache_set(memory_cache,
                                          CompleteKey(task.args.user_query),
                                          result, cache_now, cache_ttl)
                   /\ cache_stats' = [cache_stats EXCEPT !.saves = @ + 1]
              ELSE UNCHANGED <<memory_cache, cache_stats>>
           /\ tasks' = [tasks EXCEPT ![t] =
                          [@ EXCEPT !.pc = "done", !.result = result]]
    /\ UNCHANGED <<cache_pc, cache_ttl, cache_now, cache_ops, trackerVars,
                   notPairVars>>

NextPair ==
    \/ \E t \in Tasks : TaskServed(t)
    \/ \E t \in Tasks : TaskStart(t)
    \/ \E t \in Tasks : TaskStage1(t)
    \/ \E t \in Tasks : TaskStage2(t)
    \/ \E t \in Tasks : TaskStage3(t)

SpecPair == InitPair /\ [][NextPair]_vars

\* the coroutine went through the three stages and built its metadata
WentThrough(t) ==
    /\ tasks[t].pc = "done"
    /\ "error" \notin DOMAIN tasks[t].result.metadata
    /\ ~ tasks[t].result.metadata.cache_hit

\* C38: when two run_full_council executions interleave on the shared cost
\* accountant, the cost each one reports in its metadata is the (rounded)
\* sum of the costs recorded for its own upstream calls and includes
\* nothing recorded by the other execution.
C38_CostIsOwnCost ==
    \A t \in Tasks :
        WentThrough(t) => tasks[t].result.metadata.cost = Round4(tasks[t].recorded)

====
